---- MODULE Spec2Model ----
(***************************************************************************)
(* Position lifecycle of the three strategy traders of lighter-trend-      *)
(* trader (MeanReversionTrader, RenkoAOTrader, BreakoutTrader): the run    *)
(* loop, _enter_position, _exit_position, _check_scale_in, the stale-order *)
(* sweep, the loss-streak pause, the adaptive cooldown and stop().         *)
(*                                                                         *)
(* The traders are asyncio coroutines.  A task runs without interruption   *)
(* from one suspension point (asyncio.sleep, an awaited order submission)  *)
(* to the next, and every action of the model is one such run: run_pc and  *)
(* stop_pc name the suspension point each task waits at.                   *)
(*                                                                         *)
(* The indicators of a cycle are an input of the lifecycle: the model      *)
(* offers the snapshots the entry and exit rules distinguish and does not  *)
(* derive them from the candle or brick window.  The candle window of      *)
(* MeanReversionTrader and BreakoutTrader (_fetch_candles and              *)
(* _build_candles_from_price) is modelled on its own, in SpecCandles.      *)
(*                                                                         *)
(* Prices are integers in units of 0.01; stop and target levels are kept   *)
(* as exact fractions num/den and compared by cross-multiplication, so the *)
(* comparisons are those of the code with no rounding.  time.time() is the *)
(* integer `now`, in seconds.                                              *)
(***************************************************************************)
EXTENDS Integers, Sequences, FiniteSets, TLC

VARIABLES
    variant,            \* which trader class the instance is
    dry_run,            \* self.dry_run
    has_client,         \* self.trading_client is not None
    max_position_size,  \* self.max_position_size, in size units
    max_hold_minutes,   \* self.max_hold_minutes
    budget,             \* what of a run is explored: seconds, positions,
                        \* whether the market may go without an entry signal,
                        \* and the prices it shows
    now,                \* time.time()
    stop_set,           \* self._stop.is_set()
    run_pc,             \* position of run()
    stop_pc,            \* position of stop()
    wake,               \* per task: time at which its asyncio.sleep ends
    current_price,      \* local of run(): price read in this cycle (0 = None)
    indicators,         \* local of run(): the indicator snapshot of this cycle
    position,           \* self._current_position
    scaled_entries,     \* self._scaled_entries (Renko+AO)
    open_orders,        \* self._open_orders with self._order_timestamps
    losing_streak,      \* self._losing_streak
    pause_until,        \* self._pause_until
    last_exit_time,     \* self._last_exit_time
    exit_cooldown,      \* self._exit_cooldown_seconds, in milliseconds
    recent_exit_reasons,\* self._recent_exit_reasons (deque, maxlen 5)
    trades,             \* number of records handed to pnl_tracker.record_trade
    opened,             \* number of positions opened so far
    record_failures,    \* number of record_trade calls that raised
    rejects,            \* number of order submissions that raised
    fr,                 \* per task: the frame of its _enter/_exit/_scale call
    obs,                \* what the last step evaluated and decided
    hist,               \* what has happened since the last exit (observer)
    candles,            \* self._candles (deque of Candle)
    renko,              \* RenkoAOTrader: _price_history, _renko_bricks,
                        \* _current_brick and _current_renko_brick_size
    pipeline,           \* the indicator periods of the configuration and
                        \* what _compute_indicators and _check_entry
                        \* returned for the window
    trading_client,     \* the TradingClient: _next_client_order_index, and
                        \* the create_limit_order calls in flight
    store,              \* the StateStore: _mids, and what was written to
                        \* it and read from it (observer)
    tracker,            \* the PositionTracker: the rows of `positions`, and
                        \* what was saved, deleted and loaded (observer)
    app                 \* main(): the stop event, the gathered tasks and
                        \* the shutdown

vars == << variant, dry_run, has_client, max_position_size, max_hold_minutes,
           budget, now, stop_set,
           run_pc, stop_pc, wake, current_price, indicators, position,
           scaled_entries, open_orders, losing_streak, pause_until,
           last_exit_time, exit_cooldown, recent_exit_reasons, trades, opened,
           record_failures, rejects, fr,
           obs, hist, candles, renko, pipeline, trading_client, store,
           tracker, app >>

\* what no step of the position lifecycle changes: the configuration, and
\* the candle and brick windows, which reach the lifecycle only through
\* the indicator snapshots
cfgvars == << variant, dry_run, has_client, max_position_size,
             max_hold_minutes, budget, candles, renko, pipeline, trading_client,
             store, tracker, app >>

\* what no step of the candle aggregator or of the brick builder changes
lifecyclevars == << variant, dry_run, has_client, max_position_size,
                   max_hold_minutes, budget, stop_set, run_pc, stop_pc, wake,
                   indicators, position, scaled_entries,
                   open_orders, losing_streak, pause_until, last_exit_time,
                   exit_cooldown, recent_exit_reasons, trades, opened,
                   record_failures, rejects, fr, hist >>

\* the same, and the indicator pipeline
buildervars == << lifecyclevars, pipeline, trading_client, store, tracker,
                 app >>

\* the variables of the traders
tradervars == << lifecyclevars, now, current_price, obs, candles, renko,
                pipeline >>

----------------------------------------------------------------------------
(* Bounds of the model                                                     *)

\* wall-clock second at which run() starts
StartTime == 200
\* seconds of wall-clock time that are explored
Horizon == 7
\* positions one instance may open in a run
MaxPositions == 2
\* record_trade calls the trade store may fail in a run
MaxRecordFailures == 1
\* order submissions the exchange may refuse in a run
MaxRejects == 3

\* the same for a dry-run RenkoAOTrader without a trading client
DryRunHorizon == 45
DryRunPositions == 5

\* seconds explored of a live BreakoutTrader whose orders are all accepted
LiveHorizon == 36

\* seconds over which _check_exit is called on one breakout position
TrailHorizon == 15

\* seconds explored of a live RenkoAOTrader that scales into its position
ScaleHorizon == 16

\* seconds explored of a dry-run trader whose cycles may raise, and the
\* cycles of a run that may do so
ErrorHorizon == 20
MaxCycleErrors == 2

\* seconds over which the candle window is followed, the candles the window
\* holds (self._candles has maxlen 200), and the candles of one backfill
CandleHorizon == 20
MaxCandles == 3
MaxBackfill == 2

\* cycles over which the brick builder of RenkoAOTrader is followed
RenkoHorizon == 5

\* candles of the windows the indicators are computed on
MaxWindow == 4
BreakoutHorizon == 20
MaxOrders == 4
MaxWrites == 3
MaxTrackerOps == 3
MaxReasons == 3
MonitorHorizon == 20

----------------------------------------------------------------------------
(* Program constants and configuration values                              *)

Variants == {"mean_reversion", "renko_ao", "breakout"}
Tasks == {"run", "stop"}

\* observed mid prices: 100.00, 100.06 and 101.00
Prices == {10000, 10006, 10100}

\* self.min_position_size, in size units (one unit = half the default 0.1)
min_position_size == 2

\* max_retries in _enter_position / _exit_position
max_retries == 3
\* retry_delay
retry_delay == 1
\* self._order_timeout_seconds
order_timeout_seconds == 30

\* answers of the execution collaborator to create_limit_order
Outcomes == {"ok", "rate_limit", "invalid_nonce", "other"}

\* self._scale_interval_seconds (configuration value used by the model)
scale_interval_seconds == 5
\* self._scale_price_threshold_bps
scale_price_threshold_bps == 5
\* self._max_scales (configuration value used by the model)
max_scales == 2
\* self.no_movement_minutes of BreakoutTrader (configuration value used by the
\* model)
no_movement_minutes == 1
\* self.atr_min_bps / self.atr_max_bps of BreakoutTrader
atr_min_bps == 3
atr_max_bps == 15

\* asyncio.sleep at the end of a cycle
PollSleep(v) == IF v = "renko_ao" THEN 1 ELSE 5

\* asyncio.sleep of the `except Exception` clause of run()
ErrorSleep(v) == IF v = "renko_ao" THEN 5 ELSE 10

\* self.stop_loss_bps / self.take_profit_bps of the two bps-based policies
stop_loss_bps(v) == IF v = "renko_ao" THEN 7 ELSE 6
take_profit_bps(v) == IF v = "renko_ao" THEN 12 ELSE 3

\* self._max_losing_streak_before_pause
max_losing_streak_before_pause(v) == IF v = "renko_ao" THEN 5 ELSE 2
\* self._pause_duration_seconds
pause_duration_seconds(v) == IF v = "renko_ao" THEN 180 ELSE 300
\* self._base_exit_cooldown_seconds, in milliseconds
base_exit_cooldown(v) ==
    IF v = "renko_ao" THEN 10000 ELSE IF v = "breakout" THEN 20000 ELSE 0
\* the cap of _update_adaptive_cooldown, in milliseconds
cooldown_cap(v) == IF v = "renko_ao" THEN 60000 ELSE 120000

\* max_hold_seconds of _check_exit; the trend-following trader scales it by
\* candle_interval_seconds / 60 = 15 / 60
max_hold_seconds(v) ==
    IF v = "mean_reversion" THEN (max_hold_minutes * 60 * 15) \div 60
    ELSE max_hold_minutes * 60

Max(a, b) == IF a >= b THEN a ELSE b
Min(a, b) == IF a <= b THEN a ELSE b

----------------------------------------------------------------------------
(* Records                                                                 *)

\* self._current_position = None
NoPosition ==
    [open |-> FALSE, side |-> "none", entry_num |-> 0, entry_den |-> 1,
     size |-> 0, initial_size |-> 0, stop_num |-> 0, stop_den |-> 1,
     tp_num |-> 0, tp_den |-> 1, entry_time |-> 0, order_index |-> 0,
     level |-> 0, has_mfe |-> FALSE, mfe |-> 0]

NoSignal ==
    [side |-> "none", entry_price |-> 0, stop_num |-> 0, stop_den |-> 1,
     tp_num |-> 0, tp_den |-> 1, size |-> 0, level |-> 0]

\* the indicator snapshot when no cycle is in progress
NoIndicators ==
    [rsi |-> 50, filters |-> "none", div |-> "none", strong |-> FALSE,
     ao |-> "none", vol |-> 5, recent_high |-> 0, recent_low |-> 0, atr |-> 0]

\* a task that is in none of _enter_position, _exit_position, _check_scale_in
IdleFrame ==
    [op |-> "none", pc |-> "none", reason |-> "none", attempt |-> 0,
     nonces |-> 0, loss |-> FALSE, idx |-> 0, xprice |-> 0, sig |-> NoSignal]

\* nothing was evaluated or decided by the last step
NoObs ==
    [task |-> "none", kind |-> "none", entry_at |-> "none",
     exit_at |-> "none", scale_at |-> "none", enter |-> "none",
     gate |-> "none", exit |-> "none", unexecuted |-> FALSE, why |-> "none",
     outcome |-> "none", subs |-> 0, retry |-> FALSE, backoff |-> 0,
     size |-> 0, trail |-> FALSE, div |-> "none", no_price |-> FALSE,
     response |-> [status |-> "none", candles |-> << >>], exact |-> TRUE]

\* RenkoAOTrader as constructed: no price seen, no brick, no brick size
NoBrick ==
    [set |-> FALSE, open_time |-> 0, open |-> 0, close |-> 0,
     direction |-> "none", high |-> 0, low |-> 0]

NoRenko ==
    [price_history |-> << >>, sized |-> FALSE, brick_size |-> 0,
     current_brick |-> NoBrick, renko_bricks |-> << >>]

\* the indicator periods: bb_period, rsi_period, atr_period,
\* ema_slow_period, and macd_slow and macd_signal of BreakoutTrader
\* (MeanReversionTrader computes no MACD: 0)
Periods(bb, rsi, atr, ema_slow, macd_slow, macd_signal) ==
    [bb |-> bb, rsi |-> rsi, atr |-> atr, ema_slow |-> ema_slow,
     macd_slow |-> macd_slow, macd_signal |-> macd_signal]

\* the periods the constructors take when the configuration names none
DefaultPeriods(v) ==
    IF v = "breakout" THEN Periods(20, 14, 14, 50, 26, 9)
    ELSE Periods(20, 14, 14, 21, 0, 0)

\* _compute_indicators was not called yet
NoOutput ==
    [status |-> "none", error |-> "none", placeholders |-> {},
     filters |-> "none", rsi_num |-> 0, rsi_den |-> 1, signal |-> NoSignal]

NoPipeline == [cfg |-> DefaultPeriods("breakout"), out |-> NoOutput]

\* the tasks that call create_limit_order on the client they share
Callers == {"mean_reversion", "breakout", "renko_ao"}

\* a caller that is not in create_limit_order
NoCall == [pc |-> "idle", idx |-> 0]

\* int(time.time() * 1000) at the construction of the client
ClockMillis == StartTime * 1000

\* TradingClient.__init__
NoClient ==
    [next |-> ClockMillis, has_signer |-> FALSE, issued |-> << >>,
     placed |-> {}, started |-> 0, call |-> [t \in Callers |-> NoCall]]

\* the markets of the state store
Markets == {"market:1", "market:2"}

\* dict.get of a key that is not there: None
Absent == [has |-> FALSE, type |-> "none", value |-> 0]

\* the rows of `positions` are unique in (strategy, market)
TrackerKeys ==
    { [strategy |-> "renko_ao", market |-> m] : m \in Markets }
    \cup { [strategy |-> "breakout", market |-> "market:2"] }

\* fetchone() of a SELECT that matches no row, and load_position's None
NoRow ==
    [has |-> FALSE, side |-> "none", entry_price |-> 0, size |-> 0,
     stop_loss |-> 0, take_profit |-> 0, entry_time |-> 0, order_index |-> 0,
     initial_size |-> 0, scaled_entries |-> << >>, recovered |-> FALSE]

\* a position dictionary, where none is passed
NoSaved ==
    [side |-> "none", entry_price |-> 0, size |-> 0, stop_loss |-> 0,
     take_profit |-> 0, entry_time |-> 0, order_index |-> 0,
     has_initial_size |-> FALSE, initial_size |-> 0,
     has_scaled_entries |-> FALSE, scaled_entries |-> << >>]

\* PositionTracker.__init__ on a database without positions, nothing loaded
NoTracker ==
    [rows |-> [k \in TrackerKeys |->
                 [has |-> FALSE,
                  row |-> [side |-> "none", entry_price |-> 0, size |-> 0,
                           stop_loss |-> 0, take_profit |-> 0,
                           entry_time |-> 0, order_index |-> 0,
                           initial_size |-> 0,
                           scaled_entries |-> [json |-> TRUE,
                                               value |-> << >>]]]],
     log |-> << >>,
     got |-> [key |-> [strategy |-> "none", market |-> "none"], at |-> 0,
              result |-> NoRow]]

\* main() before the tasks are gathered
NoApp ==
    [enabled |-> {}, websockets |-> TRUE, pnl_backup |-> FALSE,
     signalled |-> FALSE, waiter |-> "none", feed |-> "none",
     feed_stop |-> FALSE, run |-> [t \in Variants |-> "none"],
     stopped |-> {}, backup |-> "none", phase |-> "setup"]

\* StateStore.__init__, nothing read yet
NoStore ==
    [mids |-> [m \in Markets |-> Absent], writes |-> << >>,
     got |-> [market |-> "none", at |-> 0, result |-> Absent]]

\* no exit has happened yet
NoHist ==
    [exit_time |-> -1, exit_in_cycle |-> FALSE, losses |-> 0,
     nth_loss_time |-> -1, errors |-> 0, error_time |-> -1,
     exit_orders |-> 0, exit_flights |-> 0]

----------------------------------------------------------------------------
(* Indicator snapshots.  The lifecycle takes the IndicatorSnapshot of a    *)
(* cycle as an input of the policy functions: every combination of the     *)
(* fields the entry and exit rules read is offered.                        *)

\* Indicators of MeanReversionTrader: RSI, and the side for which the
\* volatility, volume, Bollinger-position and EMA filters pass.  An RSI
\* above 60 with the long filters or below 40 with the short filters is an
\* entry; an RSI on the other side of 50 is a trend reversal.
SnapshotsMeanReversion ==
    { [NoIndicators EXCEPT !.rsi = w[1], !.filters = w[2]] :
        w \in {<<70, "long">>, <<30, "short">>, <<45, "none">>,
               <<55, "none">>} }

\* Indicators of RenkoAOTrader: divergence_type, divergence_strength >=
\* min_divergence_strength, the AO reversal (ao_trend with the sign of ao),
\* and the brick size in bps of the price.  With a position open the cycle
\* reads the AO reversal and the divergence type, without one the divergence
\* and the brick size.
SnapshotsRenko(open) ==
    IF open
    THEN { [NoIndicators EXCEPT !.div = w[1], !.ao = w[2]] :
             w \in {<<"none", "none">>, <<"none", "bullish">>,
                    <<"none", "bearish">>, <<"bullish", "none">>,
                    <<"bearish", "none">>} }
    ELSE { [NoIndicators EXCEPT !.div = w[1], !.strong = w[2], !.vol = v] :
             w \in {<<"none", FALSE>>, <<"bullish", TRUE>>,
                    <<"bearish", TRUE>>, <<"bullish", FALSE>>},
             v \in {1, 5} }

\* Indicators of BreakoutTrader: recent high and low, the side for which the
\* RSI, MACD, ATR-expansion and EMA filters pass, volatility_bps and ATR.  A
\* volatility below atr_min_bps admits no entry whatever the levels are.
SnapshotsBreakout ==
    { [NoIndicators EXCEPT !.recent_high = w[1], !.recent_low = w[2],
                           !.filters = w[3], !.vol = w[4], !.atr = a] :
        w \in {<<10100, 10000, "none", 2>>, <<10100, 10000, "none", 5>>,
               <<10000, 10000, "long", 5>>, <<10006, 10000, "long", 5>>,
               <<10100, 10100, "short", 5>>, <<10100, 10006, "short", 5>>},
        a \in {0, 4} }

\* the snapshots a cycle may see, for the trader v with or without a position
Snapshots(v, open) ==
    CASE v = "mean_reversion" -> SnapshotsMeanReversion
      [] v = "renko_ao" -> SnapshotsRenko(open)
      [] OTHER -> SnapshotsBreakout

----------------------------------------------------------------------------
(* Signal policies                                                         *)

\* size of _create_signal: min(max, max(min, raw)) for the bps-based
\* policies, max(min, min(max, raw)) for the breakout policy; raw is below
\* the minimum with the default sizes
SignalSize(v, maxsize) ==
    IF v = "breakout" THEN Max(min_position_size, Min(maxsize, min_position_size))
    ELSE Min(maxsize, Max(min_position_size, 1))

\* _create_signal of MeanReversionTrader and RenkoAOTrader
BpsSignal(v, side, price, maxsize) ==
    [side |-> side, entry_price |-> price,
     stop_num |-> IF side = "long" THEN price * (10000 - stop_loss_bps(v))
                  ELSE price * (10000 + stop_loss_bps(v)),
     stop_den |-> 10000,
     tp_num |-> IF side = "long" THEN price * (10000 + take_profit_bps(v))
                ELSE price * (10000 - take_profit_bps(v)),
     tp_den |-> 10000,
     size |-> SignalSize(v, maxsize), level |-> 0]

\* _create_signal of BreakoutTrader without the fallback for ATR <= 0
BreakoutSignalNoFallback(side, price, ind, level, maxsize) ==
    LET atr2 == 2 * ind.atr
    IN [side |-> side, entry_price |-> price,
        stop_num |-> IF side = "long" THEN 4 * level - 3 * atr2
                     ELSE 4 * level + 3 * atr2,
        stop_den |-> 4,
        tp_num |-> IF side = "long" THEN 4 * price + 5 * atr2
                   ELSE 4 * price - 5 * atr2,
        tp_den |-> 4,
        size |-> SignalSize("breakout", maxsize), level |-> level]

\* _create_signal of BreakoutTrader: stop 1.5 ATR from the breakout level,
\* target 2.5 ATR from the price; ATR <= 0 falls back to 1% of the price
BreakoutSignal(side, price, ind, level, maxsize) ==
    LET atr2 == IF ind.atr <= 0 THEN (price * 2) \div 100 ELSE 2 * ind.atr
    IN [side |-> side, entry_price |-> price,
        stop_num |-> IF side = "long" THEN 4 * level - 3 * atr2
                     ELSE 4 * level + 3 * atr2,
        stop_den |-> 4,
        tp_num |-> IF side = "long" THEN 4 * price + 5 * atr2
                   ELSE 4 * price - 5 * atr2,
        tp_den |-> 4,
        size |-> SignalSize("breakout", maxsize), level |-> level]

\* _check_entry
CheckEntry(v, price, ind, maxsize) ==
    CASE v = "mean_reversion" ->
           IF ind.rsi > 50 + 10 /\ ind.filters = "long"
             THEN BpsSignal(v, "long", price, maxsize)
           ELSE IF ind.rsi < 50 - 10 /\ ind.filters = "short"
             THEN BpsSignal(v, "short", price, maxsize)
           ELSE NoSignal
      [] v = "renko_ao" ->
           IF ind.div = "none" \/ ~ind.strong THEN NoSignal
           ELSE BpsSignal(v, IF ind.div = "bullish" THEN "long" ELSE "short",
                          price, maxsize)
      [] OTHER ->
           IF ind.vol < atr_min_bps \/ ind.vol > atr_max_bps THEN NoSignal
           ELSE IF ind.recent_high > 0 /\ price > ind.recent_high
                   /\ ind.filters = "long"
             THEN BreakoutSignal("long", price, ind, ind.recent_high, maxsize)
           ELSE IF ind.recent_low > 0 /\ price < ind.recent_low
                   /\ ind.filters = "short"
             THEN BreakoutSignal("short", price, ind, ind.recent_low, maxsize)
           ELSE NoSignal

\* the position dictionary _enter_position stores for a signal
PositionOf(sig, t, idx) ==
    [open |-> TRUE, side |-> sig.side, entry_num |-> sig.entry_price,
     entry_den |-> 1, size |-> sig.size, initial_size |-> sig.size,
     stop_num |-> sig.stop_num, stop_den |-> sig.stop_den,
     tp_num |-> sig.tp_num, tp_den |-> sig.tp_den, entry_time |-> t,
     order_index |-> idx, level |-> sig.level, has_mfe |-> FALSE, mfe |-> 0]

\* price - entry_price, times entry_den, signed by the side (the sign of
\* pnl_pct)
Favorable(pos, price) ==
    IF pos.side = "long" THEN price * pos.entry_den - pos.entry_num
    ELSE pos.entry_num - price * pos.entry_den

\* pnl_pct < 0 in _exit_position
IsLoss(pos, price) == Favorable(pos, price) < 0

TrailingStopUnguarded(pos, price, ind) ==
    LET cur == Favorable(pos, price)
        best == IF pos.has_mfe THEN Max(pos.mfe, cur) ELSE cur
        p1 == [pos EXCEPT !.has_mfe = TRUE, !.mfe = best]
        trail_num == IF pos.side = "long" THEN 2 * price - ind.atr
                     ELSE 2 * price + ind.atr
    IN IF ind.atr > 0 /\ best * 100 >= ind.atr * 10000
       THEN [p1 EXCEPT !.stop_num = trail_num, !.stop_den = 2]
       ELSE p1

\* the MFE tracking and the trailing stop of BreakoutTrader._check_exit:
\* mfe is kept as the best favourable price move; the code compares the MFE
\* in percent, mfe / entry * 100, with atr / entry * 10000 * 1.0
TrailingStop(pos, price, ind) ==
    LET cur == Favorable(pos, price)
        best == IF pos.has_mfe THEN Max(pos.mfe, cur) ELSE cur
        p1 == [pos EXCEPT !.has_mfe = TRUE, !.mfe = best]
        activated == ind.atr > 0 /\ best * 100 >= ind.atr * 10000
        trail_num == IF pos.side = "long" THEN 2 * price - ind.atr
                     ELSE 2 * price + ind.atr
        tighter == IF pos.side = "long"
                   THEN trail_num * pos.stop_den > pos.stop_num * 2
                   ELSE trail_num * pos.stop_den < pos.stop_num * 2
    IN IF activated /\ tighter
       THEN [p1 EXCEPT !.stop_num = trail_num, !.stop_den = 2]
       ELSE p1

\* whether _check_exit assigned pos["stop_loss"]: before is the position it
\* was called on, after the position it left
StopMoved(before, after) ==
    << after.stop_num, after.stop_den >> # << before.stop_num, before.stop_den >>

\* price <= stop_loss (long) or price >= stop_loss (short)
StopHit(pos, price) ==
    IF pos.side = "long" THEN price * pos.stop_den <= pos.stop_num
    ELSE price * pos.stop_den >= pos.stop_num

\* price >= take_profit (long) or price <= take_profit (short)
TargetHit(pos, price) ==
    IF pos.side = "long" THEN price * pos.tp_den >= pos.tp_num
    ELSE price * pos.tp_den <= pos.tp_num

\* _check_exit that tests the stop, the target and the holding time before
\* the breakout level
CheckExitStopFirst(v, pos, price, ind, t) ==
    IF StopHit(pos, price) THEN "stop_loss"
    ELSE IF TargetHit(pos, price) THEN "take_profit"
    ELSE IF t - pos.entry_time > max_hold_seconds(v) THEN "time_stop"
    ELSE IF v = "breakout" /\ pos.side = "long" /\ price < pos.level
    THEN "breakout_failure"
    ELSE IF v = "breakout" /\ pos.side = "short" /\ price > pos.level
    THEN "breakout_failure"
    ELSE "none"

\* _check_exit: the exit reason, "none" for None.  The latest candle of the
\* breakout trader closes at the price of the cycle
\* (_build_candles_from_price).
CheckExit(v, pos, price, ind, t) ==
    CASE v = "breakout" /\ pos.side = "long" /\ price < pos.level -> "breakout_failure"
      [] v = "breakout" /\ pos.side = "short" /\ price > pos.level -> "breakout_failure"
      [] OTHER ->
           IF StopHit(pos, price) THEN "stop_loss"
           ELSE IF TargetHit(pos, price) THEN "take_profit"
           ELSE IF t - pos.entry_time > max_hold_seconds(v) THEN "time_stop"
           ELSE CASE v = "mean_reversion" ->
                       IF \/ pos.side = "long" /\ ind.rsi < 50
                          \/ pos.side = "short" /\ ind.rsi > 50
                       THEN "trend_reversal" ELSE "none"
                  [] v = "renko_ao" ->
                       IF \/ pos.side = "long" /\ ind.ao = "bearish"
                          \/ pos.side = "short" /\ ind.ao = "bullish"
                       THEN "ao_reversal" ELSE "none"
                  [] OTHER ->
                       IF /\ t - pos.entry_time > no_movement_minutes * 60
                          /\ Favorable(pos, price) <= 0
                       THEN "no_movement" ELSE "none"

----------------------------------------------------------------------------
(* Adaptive cooldown, stale-order sweep, order indices, retry policy       *)

Count(seq, x) == Cardinality({i \in 1..Len(seq) : seq[i] = x})

\* _update_adaptive_cooldown that halves the cooldown in low volatility
AdaptiveCooldownHalved(v, ind, streak, reasons) ==
    LET hi == IF v = "renko_ao" THEN 8 ELSE 10
        lo == IF v = "renko_ao" THEN 2 ELSE 3
        c0 == base_exit_cooldown(v)
        c1 == IF ind.vol > hi THEN (c0 * 3) \div 2
              ELSE IF ind.vol < lo THEN c0 \div 2 ELSE c0
        c2 == IF Count(reasons, "stop_loss") >= 2 THEN (c1 * 13) \div 10 ELSE c1
        c3 == IF streak >= 2 THEN (c2 * 6) \div 5 ELSE c2
        c4 == IF v = "breakout" /\ Count(reasons, "breakout_failure") >= 1
              THEN c3 * 2 ELSE c3
    IN Min(c4, cooldown_cap(v))

\* _update_adaptive_cooldown, in milliseconds; RenkoAOTrader takes the
\* volatility from the brick size and has the thresholds 8 and 2
AdaptiveCooldown(v, ind, streak, reasons) ==
    LET hi == IF v = "renko_ao" THEN 8 ELSE 10
        lo == IF v = "renko_ao" THEN 2 ELSE 3
        c0 == base_exit_cooldown(v)
        c1 == IF ind.vol > hi THEN (c0 * 3) \div 2
              ELSE IF ind.vol < lo THEN (c0 * 4) \div 5 ELSE c0
        c2 == IF Count(reasons, "stop_loss") >= 2 THEN (c1 * 13) \div 10 ELSE c1
        c3 == IF streak >= 2 THEN (c2 * 6) \div 5 ELSE c2
        c4 == IF v = "breakout" /\ Count(reasons, "breakout_failure") >= 1
              THEN c3 * 2 ELSE c3
    IN Min(c4, cooldown_cap(v))

\* deque(maxlen=5).append
AppendReason(reasons, r) ==
    LET q == Append(reasons, r)
    IN IF Len(q) > 5 THEN Tail(q) ELSE q

RemoveOrder(orders, idx) == {o \in orders : o.idx # idx}

\* orders older than self._order_timeout_seconds
StaleOrders(orders, t) == {o \in orders : t - o.ts > order_timeout_seconds}

\* a tracked order with the index idx, created at ts; tried records that a
\* cancel_order call for it was made and raised
NewOrder(idx, ts) == [idx |-> idx, ts |-> ts, tried |-> FALSE]

\* _cancel_stale_orders: RenkoAOTrader skips it in dry-run and forgets an
\* order whose cancel failed, BreakoutTrader keeps that order;
\* MeanReversionTrader has no sweep
CancelStaleOrders(v, client, dry, orders, t, cancel_ok) ==
    CASE v = "mean_reversion" -> orders
      [] v = "renko_ao" ->
           IF ~client \/ dry THEN orders ELSE orders \ StaleOrders(orders, t)
      [] OTHER ->
           IF ~client THEN orders
           ELSE IF cancel_ok THEN orders \ StaleOrders(orders, t)
           ELSE (orders \ StaleOrders(orders, t))
                \cup {[o EXCEPT !.tried = TRUE] : o \in StaleOrders(orders, t)}

\* order.client_order_index of a new order: an index no live order has
UsedIndices ==
    {o.idx : o \in open_orders} \cup {position.order_index}
    \cup {scaled_entries[i].order_index : i \in 1..Len(scaled_entries)}
    \cup {fr[t].idx : t \in Tasks}

FreshIndex ==
    CHOOSE i \in 1..(Cardinality(UsedIndices) + 1) :
        i \notin UsedIndices /\ \A j \in 1..(i - 1) : j \in UsedIndices

SubmitVerdictLenient(v, outcome, attempt) ==
    IF outcome \in {"ok", "other"} THEN "ok"
    ELSE IF v = "mean_reversion" THEN "raise" ELSE "backoff"

SubmitVerdictRetryAll(v, outcome, attempt) ==
    IF outcome = "ok" THEN "ok" ELSE "backoff"

\* the except-branch of the retry loop around create_limit_order, for the
\* answer to submission number attempt + 1: "ok" leaves the loop with the
\* order, "backoff" sleeps and goes round the loop, "raise" re-raises.
\* MeanReversionTrader submits once, outside any loop.
SubmitVerdict(v, outcome, attempt) ==
    CASE outcome = "ok" -> "ok"
      [] v = "mean_reversion" -> "raise"
      [] outcome = "rate_limit" -> "backoff"
      [] outcome = "invalid_nonce" ->
           IF v = "renko_ao" /\ ~(attempt < max_retries - 1) THEN "raise"
           ELSE "backoff"
      [] OTHER -> "raise"

Pow2(n) == IF n = 0 THEN 1 ELSE IF n = 1 THEN 2 ELSE IF n = 2 THEN 4 ELSE 8

\* the asyncio.sleep of the except-branch: retry_delay * 2 ** attempt after a
\* rate limit, retry_delay after an invalid nonce
BackoffSeconds(outcome, attempt) ==
    IF outcome = "rate_limit" THEN retry_delay * Pow2(attempt) ELSE retry_delay

\* what _exit_position does when the loop ends without an order:
\* RenkoAOTrader raises, BreakoutTrader goes on to the bookkeeping
ExitWithoutOrder(v) == IF v = "breakout" THEN "proceed" ELSE "raise"

\* whether _exit_position hands a TradeRecord to pnl_tracker.record_trade:
\* BreakoutTrader does in both modes, the other two only in the live branch
RecordsTrade(v, dry) == v = "breakout" \/ ~dry

\* whether _exit_position updates the loss streak, the pause and the recent
\* exit reasons
TracksPerformance(v, dry) ==
    CASE v = "mean_reversion" -> FALSE
      [] v = "renko_ao" -> ~dry
      [] OTHER -> TRUE

\* whether _exit_position sets self._last_exit_time
StartsCooldown(v) == v # "mean_reversion"

----------------------------------------------------------------------------
(* The bookkeeping of _exit_position                                       *)

\* the orders _exit_position cancels and forgets once the exit order is
\* placed: the entry order, and for RenkoAOTrader the scaled entry orders
ForgetEntryOrders(v, orders, idx, scaled) ==
    LET o1 == RemoveOrder(orders, idx)
    IN IF v = "renko_ao"
       THEN {o \in o1 : \A i \in 1..Len(scaled) : scaled[i].order_index # o.idx}
       ELSE o1

\* the attributes _exit_position may change, left as they are, for the
\* position pos and the open orders `orders`
NoEffect(pos, orders) ==
    [position |-> pos, scaled |-> scaled_entries, orders |-> orders,
     streak |-> losing_streak, pause |-> pause_until,
     reasons |-> recent_exit_reasons, trades |-> trades,
     failures |-> record_failures, last_exit |-> last_exit_time,
     closed |-> FALSE]

\* _exit_position from the end of the retry loop (live) or from the dry-run
\* branch to its last statement, at time t, for the position pos and the exit
\* frame f.  have_order: the loop produced an order; rec_ok: record_trade
\* returns (it raises otherwise, and the except clause ends the call).
ExitEffect(pos, orders, f, t, have_order, rec_ok, cancel_ok) ==
    LET live == ~dry_run
        o1 == IF live /\ have_order
              THEN ForgetEntryOrders(variant, orders, f.idx, scaled_entries)
              ELSE orders
        o2 == IF live
              THEN CancelStaleOrders(variant, has_client, dry_run, o1, t, cancel_ok)
              ELSE o1
        track == TracksPerformance(variant, dry_run)
        streak == IF ~track THEN losing_streak
                  ELSE IF f.loss THEN losing_streak + 1 ELSE 0
        pause == IF track /\ f.loss
                    /\ streak >= max_losing_streak_before_pause(variant)
                 THEN t + pause_duration_seconds(variant) ELSE pause_until
        records == RecordsTrade(variant, dry_run)
        closes == ~records \/ rec_ok
    IN [position |-> IF closes THEN NoPosition ELSE pos,
        scaled |-> IF closes THEN << >> ELSE scaled_entries,
        orders |-> o2,
        streak |-> streak,
        pause |-> pause,
        reasons |-> IF track THEN AppendReason(recent_exit_reasons, f.reason)
                    ELSE recent_exit_reasons,
        trades |-> IF records /\ rec_ok THEN trades + 1 ELSE trades,
        failures |-> IF records /\ ~rec_ok THEN record_failures + 1
                     ELSE record_failures,
        last_exit |-> IF closes /\ StartsCooldown(variant) THEN t
                      ELSE last_exit_time,
        closed |-> closes]

\* _exit_position(reason) up to its first suspension, for the open position
\* pos and the price xp that _get_current_price() returns (0 = None, which
\* makes the code take the entry price): it returns at once (no client in
\* live mode, ensure_ready raising, dry-run) or submits the exit order
ExitSync(pos, orders, reason, xp, ready_ok, rec_ok, t) ==
    LET loss == xp # 0 /\ IsLoss(pos, xp)
        f == [IdleFrame EXCEPT !.op = "exit", !.pc = "submit",
                               !.reason = reason, !.loss = loss,
                               !.idx = pos.order_index]
    IN CASE ~has_client /\ ~dry_run ->
              [mode |-> "return", exit |-> "closed", unexecuted |-> TRUE,
               frame |-> f,
               eff |-> [NoEffect(pos, orders) EXCEPT !.position = NoPosition,
                                             !.closed = TRUE]]
         [] has_client /\ ~ready_ok ->
              [mode |-> "return", exit |-> "failed", unexecuted |-> TRUE,
               frame |-> f, eff |-> NoEffect(pos, orders)]
         [] dry_run ->
              LET e == ExitEffect(pos, orders, f, t, FALSE, rec_ok, TRUE) IN
              [mode |-> "return",
               exit |-> IF e.closed THEN "closed" ELSE "kept",
               unexecuted |-> FALSE, frame |-> f, eff |-> e]
         [] OTHER ->
              [mode |-> "suspend", exit |-> "none", unexecuted |-> FALSE,
               frame |-> f, eff |-> NoEffect(pos, orders)]

\* whether _exit_position reaches `self._get_current_price() or
\* pos["entry_price"]`: not on the early return without a client in live
\* mode, and not when ensure_ready raises
ReadsExitPrice(ready_ok) ==
    (has_client \/ dry_run) /\ (has_client => ready_ok)

\* observer: the exits seen so far, after an exit at time t that closed the
\* position with or without a loss
HistAfterExit(h, loss, t) ==
    LET n == max_losing_streak_before_pause(variant)
        k == IF loss THEN Min(h.losses + 1, n) ELSE 0
    IN [h EXCEPT !.exit_time = t, !.exit_in_cycle = TRUE, !.losses = k,
                 !.nth_loss_time = IF ~loss THEN -1
                                   ELSE IF h.losses + 1 = n THEN t
                                   ELSE h.nth_loss_time]

\* observer: create_limit_order has returned one more exit order; flights
\* counts those returned while the other task was inside _exit_position too
HistAfterExitOrder(h, tk) ==
    LET other == IF tk = "run" THEN "stop" ELSE "run" IN
    [h EXCEPT !.exit_orders = @ + 1,
              !.exit_flights = IF fr[other].op = "exit" THEN @ + 1 ELSE @]

\* the assignments of an exit effect to the performance attributes
ApplyExit(eff, loss, t, h) ==
    /\ losing_streak' = eff.streak
    /\ pause_until' = eff.pause
    /\ recent_exit_reasons' = eff.reasons
    /\ trades' = eff.trades
    /\ record_failures' = eff.failures
    /\ last_exit_time' = eff.last_exit
    /\ hist' = IF eff.closed THEN HistAfterExit(h, loss, t) ELSE h

\* record_trade may raise only a bounded number of times in a run
RecordAnswers ==
    IF RecordsTrade(variant, dry_run) /\ record_failures < MaxRecordFailures
    THEN BOOLEAN ELSE {TRUE}

\* the same where _exit_position is entered: only the dry-run branch reaches
\* record_trade before the first suspension
RecordAnswersSync == IF dry_run THEN RecordAnswers ELSE {TRUE}

ReadyAnswers == IF has_client THEN BOOLEAN ELSE {TRUE}

\* create_limit_order may raise only a bounded number of times in a run
SubmitAnswers == IF rejects < MaxRejects THEN Outcomes ELSE {"ok"}

\* the count of refused submissions after the answer outcome
Answered(outcome) ==
    rejects' = IF outcome = "ok" THEN rejects ELSE rejects + 1

CancelAnswers(orders, t) ==
    IF variant = "breakout" /\ has_client /\ StaleOrders(orders, t) # {}
    THEN BOOLEAN ELSE {TRUE}

----------------------------------------------------------------------------
(* Initial state: the trader as constructed, run() about to start          *)

Init ==
    /\ variant \in Variants
    /\ dry_run \in BOOLEAN
    /\ has_client \in BOOLEAN
    /\ max_position_size \in (IF variant = "breakout" THEN {2} ELSE {1, 2})
    /\ max_hold_minutes = 1
    /\ budget = [time |-> StartTime + Horizon, positions |-> MaxPositions,
                 idle |-> TRUE, prices |-> Prices,
                 errors |-> 0]
    /\ now = StartTime
    /\ stop_set = FALSE
    /\ run_pc = "sleep"
    /\ stop_pc = "idle"
    /\ wake = [t \in Tasks |-> StartTime]
    /\ current_price = 0
    /\ indicators = NoIndicators
    /\ position = NoPosition
    /\ scaled_entries = << >>
    /\ open_orders = {}
    /\ losing_streak = 0
    /\ pause_until = 0
    /\ last_exit_time = 0
    /\ exit_cooldown = base_exit_cooldown(variant)
    /\ recent_exit_reasons = << >>
    /\ trades = 0
    /\ opened = 0
    /\ record_failures = 0
    /\ rejects = 0
    /\ fr = [t \in Tasks |-> IdleFrame]
    /\ obs = NoObs
    /\ hist = NoHist
    /\ candles = << >>
    /\ renko = NoRenko
    /\ pipeline = NoPipeline
    /\ trading_client = NoClient
    /\ store = NoStore
    /\ tracker = NoTracker
    /\ app = NoApp

----------------------------------------------------------------------------
(* run(): the entry side of a cycle                                        *)

\* `if self._current_position:` before _check_exit
ExitGuard(pos) == pos.open

EntryGuardAlways(pos) == TRUE

\* `if not self._current_position:` before the entry check
EntryGuard(pos) == ~pos.open

\* the performance attributes the entry side reads, as they are now
CurrentPerformance ==
    [streak |-> losing_streak, pause |-> pause_until,
     reasons |-> recent_exit_reasons, last_exit |-> last_exit_time]

\* the same attributes after an exit effect
PerformanceAfter(eff) ==
    [streak |-> eff.streak, pause |-> eff.pause, reasons |-> eff.reasons,
     last_exit |-> eff.last_exit]

\* run() reaches the asyncio.sleep that ends a cycle, at time t
RunSleeps(t) ==
    /\ run_pc' = "sleep"
    /\ wake' = [wake EXCEPT !["run"] = t + PollSleep(variant)]
    /\ current_price' = 0
    /\ indicators' = NoIndicators
    /\ fr' = [fr EXCEPT !["run"] = IdleFrame]

\* the cycle ends with the position pos, the scaled entries and the orders
\* given
EndCycle(t, orders, pos, scaled, o) ==
    /\ RunSleeps(t)
    /\ position' = pos
    /\ scaled_entries' = scaled
    /\ open_orders' = orders
    /\ obs' = o
    /\ UNCHANGED << exit_cooldown, opened >>

\* _enter_position(sig) up to its first suspension: it returns without a
\* position (no client in live mode, ensure_ready raising, size below the
\* minimum), opens the simulated position (dry-run), or submits the order
EnterBegin(t, sig, orders, pos, scaled, cd, o, ready_ok, cancel_ok) ==
    LET swept == CancelStaleOrders(variant, has_client, dry_run, orders, t, cancel_ok)
        refused == (~has_client /\ ~dry_run) \/ (has_client /\ ~ready_ok)
        small == sig.size < min_position_size
    IN /\ exit_cooldown' = cd
       /\ IF refused \/ small
          THEN /\ RunSleeps(t)
               /\ position' = pos
               /\ scaled_entries' = scaled
               /\ open_orders' = IF refused THEN orders ELSE swept
               /\ obs' = [o EXCEPT !.enter = "failed"]
               /\ UNCHANGED opened
          ELSE IF dry_run
          THEN /\ RunSleeps(t)
               /\ position' = PositionOf(sig, t, 0)
               /\ scaled_entries' = << >>
               /\ open_orders' = swept
               /\ opened' = opened + 1
               /\ obs' = [o EXCEPT !.enter = "opened"]
          ELSE /\ fr' = [fr EXCEPT !["run"] =
                           [IdleFrame EXCEPT !.op = "enter", !.pc = "submit",
                                             !.sig = sig]]
               /\ run_pc' = "enter"
               /\ current_price' = 0
               /\ indicators' = NoIndicators
               /\ position' = pos
               /\ scaled_entries' = scaled
               /\ open_orders' = swept
               /\ obs' = [o EXCEPT !.enter = "submitted"]
               /\ UNCHANGED << opened, wake >>

\* the cycle from the entry check on, at time t with the price and the
\* indicators of the cycle: the loss-streak pause, the adaptive cooldown,
\* _check_entry and _enter_position (MeanReversionTrader has neither pause
\* nor cooldown)
EntryPhase(t, price, ind, orders, pos, scaled, st, o) ==
    LET timed == variant # "mean_reversion"
        paused == timed /\ t < st.pause
        cd == IF timed
              THEN AdaptiveCooldown(variant, ind, st.streak, st.reasons)
              ELSE exit_cooldown
        cooling == timed /\ (t - st.last_exit) * 1000 < cd
        sig == CheckEntry(variant, price, ind, max_position_size)
        at == IF pos.open THEN "open" ELSE "flat"
    IN IF paused \/ cooling \/ sig = NoSignal
       THEN /\ RunSleeps(t)
            /\ position' = pos
            /\ scaled_entries' = scaled
            /\ open_orders' = orders
            /\ exit_cooldown' = IF paused THEN exit_cooldown ELSE cd
            /\ obs' = IF paused THEN [o EXCEPT !.gate = "paused"]
                      ELSE IF cooling THEN [o EXCEPT !.gate = "cooldown"]
                      ELSE [o EXCEPT !.entry_at = at]
            /\ UNCHANGED opened
       ELSE \E ready_ok \in ReadyAnswers, cancel_ok \in CancelAnswers(orders, t) :
               EnterBegin(t, sig, orders, pos, scaled, cd,
                          [o EXCEPT !.entry_at = at, !.size = sig.size],
                          ready_ok, cancel_ok)

\* MeanReversionTrader and BreakoutTrader: `if not self._current_position:`
\* and the entry side, or the end of the cycle
RestOfCycle(t, price, ind, orders, pos, scaled, st, o) ==
    IF EntryGuard(pos)
    THEN EntryPhase(t, price, ind, orders, pos, scaled, st, o)
    ELSE EndCycle(t, orders, pos, scaled, o)

\* whether run() reads current_price and indicators again after the
\* _exit_position it awaited: RenkoAOTrader has the entry side in the else
\* branch of `if self._current_position:`
ReadsAfterExit(v) == v # "renko_ao"

\* run() after the _exit_position it awaited has returned: RenkoAOTrader
\* ends the cycle, the other two go on to the entry check
AfterRunExit(t, price, ind, orders, pos, scaled, st, o) ==
    IF ~ReadsAfterExit(variant)
    THEN EndCycle(t, orders, pos, scaled, o)
    ELSE RestOfCycle(t, price, ind, orders, pos, scaled, st, o)

\* the inputs a cycle may see: once budget.positions positions have been
\* opened, only those without an entry signal; before that, where
\* budget.idle is off, a flat trader sees only those with one
OffersEntry(price, sn) ==
    LET signal == CheckEntry(variant, price, sn, max_position_size) # NoSignal
    IN IF opened < budget.positions
       THEN budget.idle \/ position.open \/ signal
       ELSE ~signal

\* _exit_position of task tk has returned at time t with the effect eff
FinishExit(tk, eff, loss, t, h, o) ==
    /\ ApplyExit(eff, loss, t, h)
    /\ IF tk = "run"
       THEN /\ AfterRunExit(t, current_price, indicators, eff.orders,
                            eff.position, eff.scaled, PerformanceAfter(eff), o)
            /\ UNCHANGED stop_pc
       ELSE /\ stop_pc' = "done"
            /\ fr' = [fr EXCEPT !["stop"] = IdleFrame]
            /\ position' = eff.position
            /\ scaled_entries' = eff.scaled
            /\ open_orders' = eff.orders
            /\ obs' = o
            /\ UNCHANGED << run_pc, wake, current_price, indicators,
                            exit_cooldown, opened >>

\* nothing of the performance attributes changes; the observer becomes h
KeepPerformance(h) ==
    /\ hist' = h
    /\ UNCHANGED << losing_streak, pause_until, recent_exit_reasons, trades,
                    record_failures, last_exit_time >>

----------------------------------------------------------------------------
(* run(): one cycle                                                        *)

\* what the data of a cycle allows: no price, too few bricks (RenkoAOTrader,
\* before the sweep), no indicators, a price with its indicators, or
\* _compute_indicators raising (in no more than budget.errors cycles)
DataStates(v) ==
    (IF v = "renko_ao" THEN {"ok", "no_price", "no_bricks", "none"}
     ELSE {"ok", "no_price", "none"})
    \cup (IF hist.errors < budget.errors THEN {"raised"} ELSE {})

\* an exception that leaves the try block of the loop at time t and is not
\* caught ends run()
ExceptionEscapes(t) == [pc |-> "ended", wake |-> wake["run"]]

\* `except Exception` at the end of the loop body, at time t: the exception
\* is logged and run() sleeps before the `while` test is made again
ExceptionCaught(t) == [pc |-> "sleep", wake |-> t + ErrorSleep(variant)]

\* a cycle raises at time t after the sweep that left the open orders
\* `orders`; h is the observer
CycleRaises(t, orders, h) ==
    LET c == ExceptionCaught(t) IN
    /\ run_pc' = c.pc
    /\ wake' = [wake EXCEPT !["run"] = c.wake]
    /\ current_price' = 0
    /\ indicators' = NoIndicators
    /\ fr' = [fr EXCEPT !["run"] = IdleFrame]
    /\ open_orders' = orders
    /\ obs' = [NoObs EXCEPT !.task = "run", !.kind = "error"]
    /\ KeepPerformance([h EXCEPT !.errors = @ + 1, !.error_time = t])
    /\ UNCHANGED << position, scaled_entries, exit_cooldown, opened >>

ShouldScaleAnyTime(pos, scaled, price, ind, t) ==
    LET against == IF pos.side = "long"
                   THEN pos.entry_num - price * pos.entry_den
                   ELSE price * pos.entry_den - pos.entry_num
    IN /\ ind.div # "none"
       /\ Len(scaled) < max_scales
       /\ against * 10000 >= scale_price_threshold_bps * pos.entry_num
       /\ ind.div = (IF pos.side = "long" THEN "bullish" ELSE "bearish")

\* the conditions of _check_scale_in before the scale order is placed
ShouldScale(pos, scaled, price, ind, t) ==
    LET last == IF Len(scaled) > 0 THEN scaled[Len(scaled)].time
                ELSE pos.entry_time
        against == IF pos.side = "long"
                   THEN pos.entry_num - price * pos.entry_den
                   ELSE price * pos.entry_den - pos.entry_num
    IN /\ ind.div # "none"
       /\ Len(scaled) < max_scales
       /\ ~(t - last < scale_interval_seconds)
       /\ against * 10000 >= scale_price_threshold_bps * pos.entry_num
       /\ ind.div = (IF pos.side = "long" THEN "bullish" ELSE "bearish")

\* the exit side of a cycle with an open position, at time t, with the
\* orders left by the sweep and the observer h
ExitPhase(t, price, ind, orders, h) ==
    LET o0 == [NoObs EXCEPT !.task = "run", !.kind = "cycle",
                            !.exit_at = IF position.open THEN "open" ELSE "flat"]
        pos1 == IF variant = "breakout"
                THEN TrailingStop(position, price, ind) ELSE position
        reason == CheckExit(variant, pos1, price, ind, t)
        o == [o0 EXCEPT !.trail = StopMoved(position, pos1)]
    IN IF reason # "none"
       THEN \* await self._exit_position(reason)
            \E ready_ok \in ReadyAnswers, rec_ok \in RecordAnswersSync :
              LET x == ExitSync(pos1, orders, reason, price, ready_ok, rec_ok, t)
                  ox == [o EXCEPT !.why = reason, !.exit = x.exit,
                                  !.unexecuted = x.unexecuted]
              IN IF x.mode = "suspend"
                 THEN /\ fr' = [fr EXCEPT !["run"] = x.frame]
                      /\ run_pc' = "exit"
                      /\ current_price' = IF ReadsAfterExit(variant)
                                          THEN price ELSE 0
                      /\ indicators' = IF ReadsAfterExit(variant)
                                       THEN ind ELSE NoIndicators
                      /\ position' = pos1
                      /\ open_orders' = orders
                      /\ obs' = ox
                      /\ KeepPerformance(h)
                      /\ UNCHANGED << scaled_entries, exit_cooldown, opened,
                                      wake >>
                 ELSE /\ ApplyExit(x.eff, x.frame.loss, t, h)
                      /\ AfterRunExit(t, price, ind, x.eff.orders,
                                      x.eff.position, x.eff.scaled,
                                      PerformanceAfter(x.eff), ox)
       ELSE IF variant = "renko_ao"
       THEN \* await self._check_scale_in(current_price, indicators)
            LET os == [o EXCEPT !.scale_at =
                          IF position.open THEN "open" ELSE "flat"]
            IN /\ KeepPerformance(h)
               /\ \E ready_ok \in ReadyAnswers :
                    IF /\ ShouldScale(position, scaled_entries, price, ind, t)
                       /\ has_client /\ ready_ok
                    THEN /\ fr' = [fr EXCEPT !["run"] =
                                     [IdleFrame EXCEPT !.op = "scale",
                                                       !.pc = "submit",
                                                       !.xprice = price]]
                         /\ run_pc' = "scale"
                         /\ current_price' = 0
                         /\ indicators' = NoIndicators
                         /\ open_orders' = orders
                         /\ obs' = [os EXCEPT !.div = ind.div]
                         /\ UNCHANGED << position, scaled_entries,
                                         exit_cooldown, opened, wake >>
                    ELSE EndCycle(t, orders, position, scaled_entries, os)
       ELSE /\ KeepPerformance(h)
            /\ RestOfCycle(t, price, ind, orders, pos1, scaled_entries,
                           CurrentPerformance, o)

\* the body of a cycle once price and indicators are there
CycleBody(t, price, ind, orders, h) ==
    LET o == [NoObs EXCEPT !.task = "run", !.kind = "cycle"] IN
    IF ExitGuard(position)
    THEN ExitPhase(t, price, ind, orders, h)
    ELSE /\ KeepPerformance(h)
         /\ IF variant = "renko_ao"
            THEN EntryPhase(t, price, ind, orders, position, scaled_entries,
                            CurrentPerformance, o)
            ELSE RestOfCycle(t, price, ind, orders, position, scaled_entries,
                             CurrentPerformance, o)

\* run() started as a task of its own for every `await` of the loop body,
\* so that the loop goes on while a call is still suspended
AtLoopTestOrAwaiting == run_pc # "ended"

\* run() is one coroutine: the `while` test is reached only from the
\* asyncio.sleep that ends a cycle, after every `await` before it returned
AtLoopTest == run_pc = "sleep"

\* run() wakes from the sleep that ended the last cycle and runs the next
\* cycle up to its first suspension
Cycle ==
    /\ AtLoopTest
    /\ LET t == Max(now, wake["run"])
           h == [hist EXCEPT !.exit_in_cycle = FALSE]
       IN
       /\ t <= budget.time
       /\ now' = t
       /\ UNCHANGED << cfgvars, stop_set, stop_pc, rejects >>
       /\ IF stop_set
          THEN \* while not self._stop.is_set()
               /\ run_pc' = "ended"
               /\ obs' = [NoObs EXCEPT !.task = "run", !.kind = "ended"]
               /\ KeepPerformance(h)
               /\ UNCHANGED << wake, current_price, indicators, position,
                               scaled_entries, open_orders, exit_cooldown,
                               opened, fr >>
          ELSE \E data \in DataStates(variant) :
                 IF data = "raised"
                 THEN \E cancel_ok \in CancelAnswers(open_orders, t) :
                        CycleRaises(t,
                             CancelStaleOrders(variant, has_client, dry_run,
                                               open_orders, t, cancel_ok), h)
                 ELSE IF data # "ok"
                 THEN \E cancel_ok \in CancelAnswers(open_orders, t) :
                        /\ budget.idle
                        /\ KeepPerformance(h)
                        /\ EndCycle(t,
                             IF data # "none" THEN open_orders
                             ELSE CancelStaleOrders(variant, has_client, dry_run,
                                                    open_orders, t, cancel_ok),
                             position, scaled_entries,
                             [NoObs EXCEPT !.task = "run", !.kind = "nodata"])
                 ELSE \E price \in budget.prices,
                         ind \in Snapshots(variant, position.open),
                         cancel_ok \in CancelAnswers(open_orders, t) :
                        /\ OffersEntry(price, ind)
                        /\ CycleBody(t, price, ind,
                                  CancelStaleOrders(variant, has_client,
                                      dry_run, open_orders, t, cancel_ok),
                                  h)

----------------------------------------------------------------------------
(* _enter_position: the retry loop                                         *)

\* the frame after an answer that makes the loop sleep
BackoffFrame(f, outcome) ==
    [f EXCEPT !.pc = "backoff", !.attempt = f.attempt + 1,
              !.nonces = IF outcome = "invalid_nonce" THEN f.nonces + 1
                         ELSE f.nonces]

\* what a step observes of the answer to a submission of frame f
ObsAnswer(tk, f, outcome) ==
    LET verdict == SubmitVerdict(variant, outcome, f.attempt) IN
    [NoObs EXCEPT !.task = tk, !.kind = f.op, !.outcome = outcome,
                  !.subs = f.attempt + 1, !.why = f.reason,
                  !.retry = (verdict = "backoff" /\ f.attempt + 1 < max_retries),
                  !.backoff = IF verdict = "backoff"
                              THEN BackoffSeconds(outcome, f.attempt) ELSE 0]

\* the execution collaborator answers the entry order
EnterResponse ==
    /\ fr["run"].op = "enter"
    /\ fr["run"].pc = "submit"
    /\ \E outcome \in SubmitAnswers :
         /\ Answered(outcome)
         /\ LET f == fr["run"]
                verdict == SubmitVerdict(variant, outcome, f.attempt)
                o == ObsAnswer("run", f, outcome)
                idx == FreshIndex
            IN CASE verdict = "ok" ->
                      /\ open_orders' = open_orders \cup
                           {NewOrder(idx, IF variant = "mean_reversion"
                                          THEN 0 ELSE now)}
                      /\ position' = PositionOf(f.sig, now, idx)
                      /\ scaled_entries' = << >>
                      /\ opened' = opened + 1
                      /\ RunSleeps(now)
                      /\ obs' = [o EXCEPT !.enter = "opened"]
                 [] verdict = "raise" ->
                      /\ RunSleeps(now)
                      /\ obs' = [o EXCEPT !.enter = "failed"]
                      /\ UNCHANGED << open_orders, position, scaled_entries, opened >>
                 [] OTHER ->
                      /\ fr' = [fr EXCEPT !["run"] = BackoffFrame(f, outcome)]
                      /\ wake' = [wake EXCEPT !["run"] =
                                    now + BackoffSeconds(outcome, f.attempt)]
                      /\ obs' = o
                      /\ UNCHANGED << open_orders, position, scaled_entries, opened,
                                      run_pc, current_price, indicators >>
    /\ KeepPerformance(hist)
    /\ UNCHANGED << cfgvars, now, stop_set, stop_pc, exit_cooldown >>

\* the sleep of the entry retry loop ends: the next submission, or the end
\* of the loop without an order (`if order is None: return`)
EnterRetry ==
    /\ fr["run"].op = "enter"
    /\ fr["run"].pc = "backoff"
    /\ LET t == Max(now, wake["run"])
           f == fr["run"]
           o == [NoObs EXCEPT !.task = "run", !.kind = "enter",
                              !.subs = f.attempt]
       IN /\ t <= budget.time
          /\ now' = t
          /\ IF f.attempt < max_retries
             THEN /\ fr' = [fr EXCEPT !["run"].pc = "submit"]
                  /\ obs' = o
                  /\ UNCHANGED << run_pc, wake, current_price, indicators >>
             ELSE /\ RunSleeps(t)
                  /\ obs' = [o EXCEPT !.enter = "failed"]
    /\ KeepPerformance(hist)
    /\ UNCHANGED << cfgvars, stop_set, stop_pc, position, scaled_entries,
                    open_orders, opened, exit_cooldown, rejects >>

----------------------------------------------------------------------------
(* _exit_position: the retry loop                                          *)

\* the execution collaborator answers the exit order of task tk
ExitResponse(tk) ==
    /\ fr[tk].op = "exit"
    /\ fr[tk].pc = "submit"
    /\ \E outcome \in SubmitAnswers, rec_ok \in RecordAnswers,
          cancel_ok \in CancelAnswers(open_orders, now) :
         /\ Answered(outcome)
         /\ LET f == fr[tk]
                verdict == SubmitVerdict(variant, outcome, f.attempt)
                o == ObsAnswer(tk, f, outcome)
                eff == ExitEffect(position, open_orders, f, now, TRUE, rec_ok,
                                  cancel_ok)
            IN CASE verdict = "ok" ->
                      FinishExit(tk, eff, f.loss, now,
                                 HistAfterExitOrder(hist, tk),
                                 [o EXCEPT !.exit = IF eff.closed THEN "closed"
                                                    ELSE "kept"])
                 [] verdict = "raise" ->
                      FinishExit(tk, NoEffect(position, open_orders), f.loss, now,
                                 hist,
                                 [o EXCEPT !.exit = "failed", !.unexecuted = TRUE])
                 [] OTHER ->
                      /\ fr' = [fr EXCEPT ![tk] = BackoffFrame(f, outcome)]
                      /\ wake' = [wake EXCEPT ![tk] =
                                    now + BackoffSeconds(outcome, f.attempt)]
                      /\ obs' = o
                      /\ KeepPerformance(hist)
                      /\ UNCHANGED << run_pc, stop_pc, current_price, indicators,
                                      position, scaled_entries, open_orders,
                                      exit_cooldown, opened >>
    /\ UNCHANGED << cfgvars, now, stop_set >>

\* the sleep of the exit retry loop of task tk ends: the next submission, or
\* the end of the loop without an order
ExitRetry(tk) ==
    /\ fr[tk].op = "exit"
    /\ fr[tk].pc = "backoff"
    /\ LET t == Max(now, wake[tk])
           f == fr[tk]
           o == [NoObs EXCEPT !.task = tk, !.kind = "exit", !.subs = f.attempt,
                              !.why = f.reason]
       IN /\ t <= budget.time
          /\ now' = t
          /\ IF f.attempt < max_retries
             THEN /\ fr' = [fr EXCEPT ![tk].pc = "submit"]
                  /\ obs' = o
                  /\ KeepPerformance(hist)
                  /\ UNCHANGED << run_pc, stop_pc, wake, current_price,
                                  indicators, position, scaled_entries,
                                  open_orders, exit_cooldown, opened >>
             ELSE IF ExitWithoutOrder(variant) = "raise"
             THEN FinishExit(tk, NoEffect(position, open_orders), f.loss, t, hist,
                             [o EXCEPT !.exit = "failed", !.unexecuted = TRUE])
             ELSE \E rec_ok \in RecordAnswers,
                     cancel_ok \in CancelAnswers(open_orders, t) :
                    LET eff == ExitEffect(position, open_orders, f, t, FALSE,
                                          rec_ok, cancel_ok)
                    IN FinishExit(tk, eff, f.loss, t, hist,
                                  [o EXCEPT !.exit = IF eff.closed THEN "closed"
                                                     ELSE "kept",
                                            !.unexecuted = TRUE])
    /\ UNCHANGED << cfgvars, stop_set, rejects >>

----------------------------------------------------------------------------
(* _check_scale_in (RenkoAOTrader) and stop()                              *)

RECURSIVE GCD(_, _)
GCD(a, b) == IF b = 0 THEN a ELSE GCD(b, a % b)

\* scale_size of _check_scale_in: scale_size_multiplier (0.5) times the
\* initial size, at most max_position_size.  The floor of the code,
\* LIGHTER_MIN_ORDER_SIZE = 0.001, is a fiftieth of a size unit and below
\* half of any size _enter_position accepts.
ScaleSize(pos) == Min(pos.initial_size \div 2, max_position_size)

ScaledPositionInitialWeight(pos, nscaled, price) ==
    LET scale_size == ScaleSize(pos)
        total == pos.initial_size + scale_size
        num == pos.entry_num * pos.initial_size
                 + price * scale_size * pos.entry_den
        den == pos.entry_den * total
        g == GCD(num, den)
        k == stop_loss_bps("renko_ao") * (3 + nscaled + 1)
        fnum == IF pos.side = "long" THEN 20000 - k ELSE 20000 + k
        h == GCD(fnum, 20000)
    IN [pos EXCEPT !.entry_num = num \div g, !.entry_den = den \div g,
                   !.size = pos.size + scale_size,
                   !.stop_num = (num \div g) * (fnum \div h),
                   !.stop_den = (den \div g) * (20000 \div h)]

\* the position after a scale order at price: the size grows by scale_size,
\* entry_price becomes the size-weighted average, and the stop moves to
\* stop_loss_bps times 1.5 + 0.5 * num_scales from the average, num_scales
\* being one more than the number of scaled entries including the new one
ScaledPosition(pos, nscaled, price) ==
    LET scale_size == ScaleSize(pos)
        total == pos.size + scale_size
        num == pos.entry_num * pos.size + price * scale_size * pos.entry_den
        den == pos.entry_den * total
        g == GCD(num, den)
        num_scales == nscaled + 1
        k == stop_loss_bps("renko_ao") * (3 + num_scales)
        fnum == IF pos.side = "long" THEN 20000 - k ELSE 20000 + k
        h == GCD(fnum, 20000)
    IN [pos EXCEPT !.entry_num = num \div g, !.entry_den = den \div g,
                   !.size = total,
                   !.stop_num = (num \div g) * (fnum \div h),
                   !.stop_den = (den \div g) * (20000 \div h)]

\* _check_scale_in that tracks the scaled entry before the order is
\* answered
ScaleResponseTracksFirst ==
    /\ fr["run"].op = "scale"
    /\ fr["run"].pc = "submit"
    /\ \E outcome \in SubmitAnswers :
         /\ Answered(outcome)
         /\ LET f == fr["run"]
                idx == FreshIndex
                entries == Append(scaled_entries,
                                  [price |-> f.xprice,
                                   size |-> ScaleSize(position),
                                   time |-> now, order_index |-> idx])
                o == [NoObs EXCEPT !.task = "run", !.kind = "scale",
                                   !.outcome = outcome, !.subs = 1]
            IN IF outcome = "ok"
               THEN /\ RunSleeps(now)
                    /\ open_orders' = open_orders \cup {NewOrder(idx, now)}
                    /\ scaled_entries' = entries
                    /\ position' = ScaledPosition(position, Len(entries), f.xprice)
                    /\ obs' = o
               ELSE /\ RunSleeps(now)
                    /\ scaled_entries' = entries
                    /\ obs' = o
                    /\ UNCHANGED << open_orders, position >>
    /\ KeepPerformance(hist)
    /\ UNCHANGED << cfgvars, now, stop_set, stop_pc, exit_cooldown, opened >>

\* the execution collaborator answers the scale order; any exception is
\* caught and leaves the position as it was
ScaleResponse ==
    /\ fr["run"].op = "scale"
    /\ fr["run"].pc = "submit"
    /\ \E outcome \in SubmitAnswers :
         /\ Answered(outcome)
         /\ LET f == fr["run"]
                idx == FreshIndex
                entries == Append(scaled_entries,
                                  [price |-> f.xprice,
                                   size |-> ScaleSize(position),
                                   time |-> now, order_index |-> idx])
                o == [NoObs EXCEPT !.task = "run", !.kind = "scale",
                                   !.outcome = outcome, !.subs = 1]
            IN IF outcome = "ok"
               THEN /\ RunSleeps(now)
                    /\ open_orders' = open_orders \cup {NewOrder(idx, now)}
                    /\ scaled_entries' = entries
                    /\ position' = ScaledPosition(position, Len(entries), f.xprice)
                    /\ obs' = o
               ELSE /\ RunSleeps(now)
                    /\ obs' = o
                    /\ UNCHANGED << open_orders, scaled_entries, position >>
    /\ KeepPerformance(hist)
    /\ UNCHANGED << cfgvars, now, stop_set, stop_pc, exit_cooldown, opened >>

\* whether stop() exits an open position: RenkoAOTrader.stop only sets the
\* stop event
StopExits(v) == v # "renko_ao"

\* stop() is called while run() is suspended, and runs to its first
\* suspension or to its end
StopCall ==
    /\ stop_pc = "idle"
    /\ stop_set' = TRUE
    /\ LET o == [NoObs EXCEPT !.task = "stop", !.kind = "stop"] IN
       IF StopExits(variant) /\ position.open
       THEN \E xp \in budget.prices \cup {0}, ready_ok \in ReadyAnswers,
               rec_ok \in RecordAnswersSync :
              LET x == ExitSync(position, open_orders, "stop", xp, ready_ok,
                                rec_ok, now)
                  ox == [o EXCEPT !.why = "stop", !.exit = x.exit,
                                  !.unexecuted = x.unexecuted,
                                  !.no_price = ReadsExitPrice(ready_ok)
                                               /\ xp = 0]
              IN IF x.mode = "suspend"
                 THEN /\ fr' = [fr EXCEPT !["stop"] = x.frame]
                      /\ stop_pc' = "exit"
                      /\ obs' = ox
                      /\ KeepPerformance(hist)
                      /\ UNCHANGED << run_pc, wake, current_price, indicators,
                                      position, scaled_entries, open_orders,
                                      exit_cooldown, opened >>
                 ELSE FinishExit("stop", x.eff, x.frame.loss, now, hist, ox)
       ELSE /\ stop_pc' = "done"
            /\ obs' = o
            /\ KeepPerformance(hist)
            /\ UNCHANGED << fr, run_pc, wake, current_price, indicators,
                            position, scaled_entries, open_orders,
                            exit_cooldown, opened >>
    /\ UNCHANGED << cfgvars, now, rejects >>

----------------------------------------------------------------------------

Next ==
    \/ Cycle
    \/ EnterResponse
    \/ EnterRetry
    \/ \E tk \in Tasks : ExitResponse(tk)
    \/ \E tk \in Tasks : ExitRetry(tk)
    \/ ScaleResponse
    \/ StopCall

Spec == Init /\ [][Next]_vars

----------------------------------------------------------------------------
(* A dry-run RenkoAOTrader without a trading client, with max_hold_minutes *)
(* 0 and stop() not called, explored for DryRunHorizon seconds: run() is   *)
(* the only task, and it never suspends inside a cycle.  The feed has no   *)
(* gaps and the market shows an entry signal whenever the trader is flat.  *)

InitDryRun ==
    /\ variant = "renko_ao"
    /\ dry_run = TRUE
    /\ has_client = FALSE
    /\ max_position_size = 2
    /\ max_hold_minutes = 0
    /\ budget = [time |-> StartTime + DryRunHorizon,
                 positions |-> DryRunPositions, idle |-> FALSE,
                 prices |-> Prices,
                 errors |-> 0]
    /\ now = StartTime
    /\ stop_set = FALSE
    /\ run_pc = "sleep"
    /\ stop_pc = "idle"
    /\ wake = [t \in Tasks |-> StartTime]
    /\ current_price = 0
    /\ indicators = NoIndicators
    /\ position = NoPosition
    /\ scaled_entries = << >>
    /\ open_orders = {}
    /\ losing_streak = 0
    /\ pause_until = 0
    /\ last_exit_time = 0
    /\ exit_cooldown = base_exit_cooldown(variant)
    /\ recent_exit_reasons = << >>
    /\ trades = 0
    /\ opened = 0
    /\ record_failures = 0
    /\ rejects = 0
    /\ fr = [t \in Tasks |-> IdleFrame]
    /\ obs = NoObs
    /\ hist = NoHist
    /\ candles = << >>
    /\ renko = NoRenko
    /\ pipeline = NoPipeline
    /\ trading_client = NoClient
    /\ store = NoStore
    /\ tracker = NoTracker
    /\ app = NoApp

NextDryRun == Cycle

SpecDryRun == InitDryRun /\ [][NextDryRun]_vars

----------------------------------------------------------------------------
(* A live BreakoutTrader with a trading client, explored for LiveHorizon   *)
(* seconds: the exchange accepts every order and the trade store every     *)
(* record, so no retry loop goes round; one position is opened.            *)

InitLive ==
    /\ variant = "breakout"
    /\ dry_run = FALSE
    /\ has_client = TRUE
    /\ max_position_size = 2
    /\ max_hold_minutes = 1
    /\ budget = [time |-> StartTime + LiveHorizon, positions |-> 1,
                 idle |-> TRUE, prices |-> Prices,
                 errors |-> 0]
    /\ now = StartTime
    /\ stop_set = FALSE
    /\ run_pc = "sleep"
    /\ stop_pc = "idle"
    /\ wake = [t \in Tasks |-> StartTime]
    /\ current_price = 0
    /\ indicators = NoIndicators
    /\ position = NoPosition
    /\ scaled_entries = << >>
    /\ open_orders = {}
    /\ losing_streak = 0
    /\ pause_until = 0
    /\ last_exit_time = 0
    /\ exit_cooldown = base_exit_cooldown(variant)
    /\ recent_exit_reasons = << >>
    /\ trades = 0
    /\ opened = 0
    /\ record_failures = MaxRecordFailures
    /\ rejects = MaxRejects
    /\ fr = [t \in Tasks |-> IdleFrame]
    /\ obs = NoObs
    /\ hist = NoHist
    /\ candles = << >>
    /\ renko = NoRenko
    /\ pipeline = NoPipeline
    /\ trading_client = NoClient
    /\ store = NoStore
    /\ tracker = NoTracker
    /\ app = NoApp

NextLive ==
    \/ Cycle
    \/ EnterResponse
    \/ \E tk \in Tasks : ExitResponse(tk)
    \/ StopCall

SpecLive == InitLive /\ [][NextLive]_vars

----------------------------------------------------------------------------
(* A live RenkoAOTrader with a trading client, explored for ScaleHorizon   *)
(* seconds with prices a few bps apart, so that the price can move against *)
(* the average entry more than once without reaching the stop.  The        *)
(* exchange accepts every order, the feed has no gaps, stop() is not       *)
(* called, and one position is opened.                                     *)

\* observed mid prices: 100.00, 100.04, 100.06 and 100.10
ScalePrices == {10000, 10004, 10006, 10010}

InitScale ==
    /\ variant = "renko_ao"
    /\ dry_run = FALSE
    /\ has_client = TRUE
    /\ max_position_size = 2
    /\ max_hold_minutes = 1
    /\ budget = [time |-> StartTime + ScaleHorizon, positions |-> 1,
                 idle |-> FALSE, prices |-> ScalePrices,
                 errors |-> 0]
    /\ now = StartTime
    /\ stop_set = FALSE
    /\ run_pc = "sleep"
    /\ stop_pc = "idle"
    /\ wake = [t \in Tasks |-> StartTime]
    /\ current_price = 0
    /\ indicators = NoIndicators
    /\ position = NoPosition
    /\ scaled_entries = << >>
    /\ open_orders = {}
    /\ losing_streak = 0
    /\ pause_until = 0
    /\ last_exit_time = 0
    /\ exit_cooldown = base_exit_cooldown(variant)
    /\ recent_exit_reasons = << >>
    /\ trades = 0
    /\ opened = 0
    /\ record_failures = MaxRecordFailures
    /\ rejects = MaxRejects
    /\ fr = [t \in Tasks |-> IdleFrame]
    /\ obs = NoObs
    /\ hist = NoHist
    /\ candles = << >>
    /\ renko = NoRenko
    /\ pipeline = NoPipeline
    /\ trading_client = NoClient
    /\ store = NoStore
    /\ tracker = NoTracker
    /\ app = NoApp

NextScale ==
    \/ Cycle
    \/ EnterResponse
    \/ ExitResponse("run")
    \/ ScaleResponse

SpecScale == InitScale /\ [][NextScale]_vars

----------------------------------------------------------------------------
(* BreakoutTrader._check_exit on its own: one breakout position, long or   *)
(* short, entered at 100.00 with the ATR of the entry cycle, and then      *)
(* _check_exit called every five seconds with any price and ATR of the     *)
(* sets below for as long as it returns None.  current_price and           *)
(* indicators hold the arguments of the last call.                         *)

\* prices of the calls: 98.00 to 102.00
TrailPrices == {9800, 9900, 9994, 10000, 10006, 10100, 10200}
\* indicators.atr of the calls, in price units of 0.01
TrailATRs == {0, 1, 2}
\* indicators.atr of the entry cycle
EntryATRs == {0, 80}
\* time.time() of the entry: at the start, or 90 seconds before it
EntryTimes == {StartTime - 90, StartTime}

InitCheckExit ==
    /\ variant = "breakout"
    /\ dry_run = TRUE
    /\ has_client = FALSE
    /\ max_position_size = 2
    /\ max_hold_minutes = 1
    /\ budget = [time |-> StartTime + TrailHorizon, positions |-> 1,
                 idle |-> FALSE, prices |-> TrailPrices,
                 errors |-> 0]
    /\ now = StartTime
    /\ stop_set = FALSE
    /\ run_pc = "sleep"
    /\ stop_pc = "idle"
    /\ wake = [t \in Tasks |-> StartTime]
    /\ current_price = 0
    /\ indicators = NoIndicators
    /\ \E side \in {"long", "short"}, atr \in EntryATRs, t \in EntryTimes :
         position = PositionOf(
             BreakoutSignal(side, 10000, [NoIndicators EXCEPT !.atr = atr],
                            IF side = "long" THEN 9990 ELSE 10010,
                            max_position_size),
             t, 0)
    /\ scaled_entries = << >>
    /\ open_orders = {}
    /\ losing_streak = 0
    /\ pause_until = 0
    /\ last_exit_time = 0
    /\ exit_cooldown = base_exit_cooldown(variant)
    /\ recent_exit_reasons = << >>
    /\ trades = 0
    /\ opened = 1
    /\ record_failures = 0
    /\ rejects = 0
    /\ fr = [t \in Tasks |-> IdleFrame]
    /\ obs = NoObs
    /\ hist = NoHist
    /\ candles = << >>
    /\ renko = NoRenko
    /\ pipeline = NoPipeline
    /\ trading_client = NoClient
    /\ store = NoStore
    /\ tracker = NoTracker
    /\ app = NoApp

\* one call of _check_exit(price, indicators): it tracks the MFE, moves the
\* stop of the position and returns the exit reason (obs.why)
CheckExitCall ==
    /\ variant = "breakout"
    /\ position.open
    /\ obs.why = "none"
    /\ now + PollSleep(variant) <= budget.time
    /\ now' = now + PollSleep(variant)
    /\ \E price \in budget.prices, atr \in TrailATRs :
         LET ind == [NoIndicators EXCEPT !.atr = atr]
             pos1 == TrailingStop(position, price, ind)
         IN /\ position' = pos1
            /\ current_price' = price
            /\ indicators' = ind
            /\ obs' = [NoObs EXCEPT !.task = "run", !.kind = "check_exit",
                                    !.exit_at = "open",
                                    !.why = CheckExit(variant, pos1, price, ind,
                                                      now'),
                                    !.trail = StopMoved(position, pos1)]
    /\ UNCHANGED << cfgvars, stop_set, run_pc, stop_pc, wake, scaled_entries,
                    open_orders, losing_streak, pause_until, last_exit_time,
                    exit_cooldown, recent_exit_reasons, trades, opened,
                    record_failures, rejects, fr, hist >>

NextCheckExit == CheckExitCall

SpecCheckExit == InitCheckExit /\ [][NextCheckExit]_vars

----------------------------------------------------------------------------
(* A dry-run trader without a trading client, of any of the three          *)
(* strategies, in which _compute_indicators may raise in up to             *)
(* MaxCycleErrors cycles; stop() may be called at any time.                *)

ErrorPrices == {10000, 10006}

InitErrors ==
    /\ variant \in Variants
    /\ dry_run = TRUE
    /\ has_client = FALSE
    /\ max_position_size = 2
    /\ max_hold_minutes = 1
    /\ budget = [time |-> StartTime + ErrorHorizon, positions |-> 1,
                 idle |-> TRUE, prices |-> ErrorPrices,
                 errors |-> MaxCycleErrors]
    /\ now = StartTime
    /\ stop_set = FALSE
    /\ run_pc = "sleep"
    /\ stop_pc = "idle"
    /\ wake = [t \in Tasks |-> StartTime]
    /\ current_price = 0
    /\ indicators = NoIndicators
    /\ position = NoPosition
    /\ scaled_entries = << >>
    /\ open_orders = {}
    /\ losing_streak = 0
    /\ pause_until = 0
    /\ last_exit_time = 0
    /\ exit_cooldown = base_exit_cooldown(variant)
    /\ recent_exit_reasons = << >>
    /\ trades = 0
    /\ opened = 0
    /\ record_failures = 0
    /\ rejects = 0
    /\ fr = [t \in Tasks |-> IdleFrame]
    /\ obs = NoObs
    /\ hist = NoHist
    /\ candles = << >>
    /\ renko = NoRenko
    /\ pipeline = NoPipeline
    /\ trading_client = NoClient
    /\ store = NoStore
    /\ tracker = NoTracker
    /\ app = NoApp

NextErrors ==
    \/ Cycle
    \/ StopCall

SpecErrors == InitErrors /\ [][NextErrors]_vars

----------------------------------------------------------------------------
(* The candle window of MeanReversionTrader and BreakoutTrader: ticks      *)
(* (_build_candles_from_price, once per cycle) and backfills               *)
(* (_fetch_candles) in any order.  A backfill delivers up to MaxBackfill   *)
(* candles of the exchange, in any order, some without an open_time.       *)

\* self.candle_interval_seconds, by default
candle_interval_seconds(v) == IF v = "breakout" THEN 900 ELSE 15

CandlePrices == {9994, 10000, 10006}

\* Candle(open_time, open, high, low, close, volume)
Candle(t, o, h, l, c, vol) ==
    [open_time |-> t, open |-> o, high |-> h, low |-> l, close |-> c,
     volume |-> vol]

\* an entry of the `candles` list of a response; parses: int() and float()
\* accept its fields
ApiCandle(parses, t, o, h, l, c) ==
    [parses |-> parses, open_time |-> t, open |-> o, high |-> h, low |-> l,
     close |-> c, volume |-> 1]

\* the entries a response of the candles endpoint may hold: candles of the
\* exchange, of the intervals at hand, entries without an open_time (read
\* as 0), and entries with a field that is no number
ApiCandles(v) ==
    { ApiCandle(TRUE, t, 10000, 10006, 9994, 10000) :
        t \in {0, candle_interval_seconds(v), 2 * candle_interval_seconds(v)} }
    \cup { ApiCandle(FALSE, candle_interval_seconds(v), 10000, 10006, 9994,
                     10000) }

\* the `candles` lists of a response
RECURSIVE SeqsOver(_, _)
SeqsOver(S, n) ==
    IF n = 0 THEN { << >> }
    ELSE LET shorter == SeqsOver(S, n - 1)
         IN shorter \cup { Append(q, x) : q \in shorter, x \in S }

Payloads(v) == SeqsOver(ApiCandles(v), MaxBackfill)

\* what _fetch_candles gets from the endpoint: no answer with status 200
\* from either URL, a body whose `candles` is no list, or a list
Responses(v) ==
    { [status |-> st, candles |-> << >>] : st \in {"failed", "not_list"} }
    \cup { [status |-> "ok", candles |-> cs] : cs \in Payloads(v) }

\* deque.append and deque.extend of a deque with maxlen MaxCandles
DequeAppend(w, c) ==
    LET q == Append(w, c) IN IF Len(q) > MaxCandles THEN Tail(q) ELSE q

RECURSIVE DequeExtend(_, _)
DequeExtend(w, cs) ==
    IF cs = << >> THEN w ELSE DequeExtend(DequeAppend(w, Head(cs)), Tail(cs))

\* new_candles.sort(key=lambda x: x.open_time): a stable sort
RECURSIVE InsertByOpenTime(_, _)
InsertByOpenTime(sorted, c) ==
    IF sorted = << >> THEN << c >>
    ELSE IF sorted[Len(sorted)].open_time <= c.open_time
         THEN Append(sorted, c)
         ELSE Append(InsertByOpenTime(SubSeq(sorted, 1, Len(sorted) - 1), c),
                     sorted[Len(sorted)])

RECURSIVE SortByOpenTime(_)
SortByOpenTime(cs) ==
    IF cs = << >> THEN << >>
    ELSE InsertByOpenTime(SortByOpenTime(SubSeq(cs, 1, Len(cs) - 1)),
                          cs[Len(cs)])

\* an entry is appended to new_candles: Candle(...) raised no ValueError
\* or TypeError, and `candle.open_time > 0`
HasOpenTime(c) == c.parses /\ c.open_time > 0

\* the Candle objects made of the entries that are kept
RECURSIVE ParseCandles(_)
ParseCandles(cs) ==
    IF cs = << >> THEN << >>
    ELSE LET c == Head(cs) IN
         (IF HasOpenTime(c)
          THEN << Candle(c.open_time, c.open, c.high, c.low, c.close,
                         c.volume) >>
          ELSE << >>) \o ParseCandles(Tail(cs))

\* _fetch_candles that extends the window without clearing it
FetchCandlesNoClear(w, response) ==
    LET new_candles == SortByOpenTime(ParseCandles(response.candles))
    IN IF response.status = "ok" /\ new_candles # << >>
       THEN DequeExtend(w, new_candles) ELSE w

\* _fetch_candles once the response is there: it returns when there is no
\* data or no list; the candles that are kept, sorted, replace the window,
\* and none kept leaves it
FetchCandles(w, response) ==
    LET new_candles == SortByOpenTime(ParseCandles(response.candles))
    IN IF response.status = "ok" /\ new_candles # << >>
       THEN DequeExtend(<< >>, new_candles) ELSE w

\* the tick's update of the current candle with `high = price`
UpdateCandleOverwrite(c, price) ==
    [c EXCEPT !.high = price, !.low = Min(c.low, price), !.close = price]

\* the tick's update of the current candle
UpdateCandle(c, price) ==
    [c EXCEPT !.high = Max(c.high, price), !.low = Min(c.low, price),
              !.close = price]

\* _build_candles_from_price at time t, with the price the state store
\* holds (0 = None)
BuildCandlesFromPrice(v, w, price, t) ==
    LET current_candle_time ==
            (t \div candle_interval_seconds(v)) * candle_interval_seconds(v)
    IN IF price = 0 THEN w
       ELSE IF w = << >> \/ w[Len(w)].open_time < current_candle_time
       THEN DequeAppend(w, Candle(current_candle_time, price, price, price,
                                  price, 0))
       ELSE [w EXCEPT ![Len(w)] = UpdateCandle(@, price)]

\* run() starts one cycle before the end of a candle interval
CandleStart(v) == 2 * candle_interval_seconds(v) - PollSleep(v)

InitCandles ==
    /\ variant \in {"mean_reversion", "breakout"}
    /\ dry_run = TRUE
    /\ has_client = FALSE
    /\ max_position_size = 2
    /\ max_hold_minutes = 1
    /\ budget = [time |-> CandleStart(variant) + CandleHorizon,
                 positions |-> 0, idle |-> TRUE, prices |-> CandlePrices,
                 errors |-> 0]
    /\ now = CandleStart(variant)
    /\ stop_set = FALSE
    /\ run_pc = "sleep"
    /\ stop_pc = "idle"
    /\ wake = [t \in Tasks |-> now]
    /\ current_price = 0
    /\ indicators = NoIndicators
    /\ position = NoPosition
    /\ scaled_entries = << >>
    /\ open_orders = {}
    /\ losing_streak = 0
    /\ pause_until = 0
    /\ last_exit_time = 0
    /\ exit_cooldown = base_exit_cooldown(variant)
    /\ recent_exit_reasons = << >>
    /\ trades = 0
    /\ opened = 0
    /\ record_failures = 0
    /\ rejects = 0
    /\ fr = [t \in Tasks |-> IdleFrame]
    /\ obs = NoObs
    /\ hist = NoHist
    /\ candles = << >>
    /\ renko = NoRenko
    /\ pipeline = NoPipeline
    /\ trading_client = NoClient
    /\ store = NoStore
    /\ tracker = NoTracker
    /\ app = NoApp

\* run() awaits _fetch_candles, before the loop or in a cycle, and the
\* response holds a list of candles
FetchCandlesCall ==
    /\ \E response \in Responses(variant) :
         /\ candles' = FetchCandles(candles, response)
         /\ obs' = [NoObs EXCEPT !.task = "run", !.kind = "fetch",
                                 !.response = response]
    /\ UNCHANGED << buildervars, now, current_price, renko >>

\* a cycle of run() calls _build_candles_from_price and reaches the sleep
\* that ends it
BuildCandlesFromPriceCall ==
    /\ now + PollSleep(variant) <= budget.time
    /\ \E price \in budget.prices \cup {0} :
         candles' = BuildCandlesFromPrice(variant, candles, price, now)
    /\ obs' = [NoObs EXCEPT !.task = "run", !.kind = "tick"]
    /\ now' = now + PollSleep(variant)
    /\ UNCHANGED << buildervars, current_price, renko >>

NextCandles ==
    \/ FetchCandlesCall
    \/ BuildCandlesFromPriceCall

SpecCandles == InitCandles /\ [][NextCandles]_vars

----------------------------------------------------------------------------
(* The brick builder of RenkoAOTrader: the first lines of a cycle          *)
(* (price history, ATR, brick size) and _update_renko.  Prices are         *)
(* integers in units of 1/640; the first price is a multiple of 1000 units *)
(* and the others differ from it by multiples of 32, which keeps the       *)
(* price * 0.001 of the fallback and the mean of the ATR whole numbers     *)
(* (obs.exact records that no division left a remainder).                  *)

\* self.renko_atr_period and self.renko_atr_multiplier as configured
renko_atr_period == 2
renko_atr_multiplier == 1

RenkoStartPrice == 64000
RenkoPrices == {63936, 63968, 64000, 64032, 64064}

Abs(x) == IF x < 0 THEN 0 - x ELSE x

\* sum(true_ranges[-n:]) for the price history h
RECURSIVE RecentTrueRanges(_, _)
RecentTrueRanges(h, n) ==
    IF n = 0 THEN 0
    ELSE Abs(h[Len(h)] - h[Len(h) - 1])
         + RecentTrueRanges(SubSeq(h, 1, Len(h) - 1), n - 1)

\* _calculate_atr: None (some = FALSE) with fewer than renko_atr_period + 1
\* prices, the mean of the last renko_atr_period price changes otherwise
CalculateATR(h) ==
    IF Len(h) < renko_atr_period + 1
    THEN [some |-> FALSE, atr |-> 0, exact |-> TRUE]
    ELSE LET total == RecentTrueRanges(h, renko_atr_period)
         IN [some |-> TRUE, atr |-> total \div renko_atr_period,
             exact |-> total % renko_atr_period = 0]

\* run(), lines 186-195: the brick size after the price was appended to the
\* history h: ATR times the multiplier, or 0.1 % of the price while the
\* history is shorter than renko_atr_period, or what it was
BrickSize(r, h, price) ==
    LET a == CalculateATR(h) IN
    IF a.some
    THEN [sized |-> TRUE, brick_size |-> a.atr * renko_atr_multiplier,
          exact |-> a.exact]
    ELSE IF Len(h) < renko_atr_period
    THEN [sized |-> TRUE, brick_size |-> price \div 1000,
          exact |-> price % 1000 = 0]
    ELSE [sized |-> r.sized, brick_size |-> r.brick_size, exact |-> TRUE]

\* _update_renko(price) at time t, for the state r of the builder
UpdateRenko(r, price, t) ==
    LET cb == r.current_brick
        size == r.brick_size
    IN IF ~r.sized \/ size <= 0 THEN r
       ELSE IF ~cb.set
       THEN [r EXCEPT !.current_brick =
                [set |-> TRUE, open_time |-> t, open |-> price,
                 close |-> price, direction |-> "neutral", high |-> price,
                 low |-> price]]
       ELSE IF Abs(price - cb.close) >= size
       THEN LET up == price > cb.close
                new_close == IF up THEN cb.close + size ELSE cb.close - size
                done == [cb EXCEPT !.close = new_close,
                                   !.direction = IF up THEN "up" ELSE "down",
                                   !.high = Max(cb.high, price),
                                   !.low = Min(cb.low, price)]
            IN [r EXCEPT !.renko_bricks = Append(@, done),
                         !.price_history = Append(@, new_close),
                         !.current_brick =
                            [set |-> TRUE, open_time |-> t, open |-> new_close,
                             close |-> new_close, direction |-> "neutral",
                             high |-> price, low |-> price]]
       ELSE [r EXCEPT !.current_brick =
                [cb EXCEPT !.high = Max(cb.high, price),
                           !.low = Min(cb.low, price), !.close = price]]

\* a cycle of run() from the price read to the brick update, lines 181-199
ObservePrice(r, price, t) ==
    LET h == Append(r.price_history, price)
        bs == BrickSize(r, h, price)
        r1 == [r EXCEPT !.price_history = h, !.sized = bs.sized,
                        !.brick_size = bs.brick_size]
    IN IF bs.sized /\ bs.brick_size # 0 THEN UpdateRenko(r1, price, t)
       ELSE r1

InitRenko ==
    /\ variant = "renko_ao"
    /\ dry_run = TRUE
    /\ has_client = FALSE
    /\ max_position_size = 2
    /\ max_hold_minutes = 1
    /\ budget = [time |-> StartTime + RenkoHorizon, positions |-> 0,
                 idle |-> TRUE, prices |-> RenkoPrices, errors |-> 0]
    /\ now = StartTime
    /\ stop_set = FALSE
    /\ run_pc = "sleep"
    /\ stop_pc = "idle"
    /\ wake = [t \in Tasks |-> StartTime]
    /\ current_price = 0
    /\ indicators = NoIndicators
    /\ position = NoPosition
    /\ scaled_entries = << >>
    /\ open_orders = {}
    /\ losing_streak = 0
    /\ pause_until = 0
    /\ last_exit_time = 0
    /\ exit_cooldown = base_exit_cooldown(variant)
    /\ recent_exit_reasons = << >>
    /\ trades = 0
    /\ opened = 0
    /\ record_failures = 0
    /\ rejects = 0
    /\ fr = [t \in Tasks |-> IdleFrame]
    /\ obs = NoObs
    /\ hist = NoHist
    /\ candles = << >>
    /\ renko = NoRenko
    /\ pipeline = NoPipeline
    /\ trading_client = NoClient
    /\ store = NoStore
    /\ tracker = NoTracker
    /\ app = NoApp

\* a cycle of run() finds a price (the first one being RenkoStartPrice),
\* rebuilds the bricks and sleeps
ObservePriceCall ==
    /\ now + PollSleep(variant) <= budget.time
    /\ \E price \in (IF renko.price_history = << >> THEN {RenkoStartPrice}
                     ELSE budget.prices) :
         /\ renko' = ObservePrice(renko, price, now)
         /\ current_price' = price
         /\ obs' = [NoObs EXCEPT
                      !.task = "run", !.kind = "renko",
                      !.exact = BrickSize(renko,
                                          Append(renko.price_history, price),
                                          price).exact]
    /\ now' = now + PollSleep(variant)
    /\ UNCHANGED << buildervars, candles >>

\* a cycle of run() finds no price and sleeps
NoPriceCall ==
    /\ now + PollSleep(variant) <= budget.time
    /\ current_price' = 0
    /\ obs' = [NoObs EXCEPT !.task = "run", !.kind = "nodata"]
    /\ now' = now + PollSleep(variant)
    /\ UNCHANGED << buildervars, candles, renko >>

NextRenko ==
    \/ ObservePriceCall
    \/ NoPriceCall

SpecRenko == InitRenko /\ [][NextRenko]_vars

----------------------------------------------------------------------------
(* The indicator pipeline of MeanReversionTrader and BreakoutTrader:       *)
(* _compute_indicators on a candle window, for the indicator periods of    *)
(* the configuration, followed by _check_entry.  The output records        *)
(* whether indicators were returned, which of them are the value their     *)
(* function returns for too short a window, and the RSI as an exact        *)
(* fraction; the Bollinger, EMA, volume and volatility conditions of       *)
(* _check_entry are an input (filters).                                    *)

\* the closes of the windows: every sequence of up to MaxWindow closes, and
\* [100, 99, ..., 91] three times over
FallingCloses ==
    [i \in 1..30 |-> 10000 - 100 * ((i - 1) % 10)]

CloseWindows == SeqsOver({10000, 10006}, MaxWindow) \cup {FallingCloses}

\* candles with the closes given, one per interval
CandlesOf(v, closes) ==
    [i \in 1..Len(closes) |->
        Candle(i * candle_interval_seconds(v), closes[i], closes[i],
               closes[i], closes[i], 0)]

breakout_lookback == 30

\* the configurations: short periods, and the default ones
PeriodChoices(v) ==
    { Periods(bb, rsi, atr, ema, IF v = "breakout" THEN ms ELSE 0,
              IF v = "breakout" THEN 2 ELSE 0) :
        bb \in {2, 3}, rsi \in {2, 3}, atr \in {2, 3}, ema \in {2, 3},
        ms \in {2, 3} }
    \cup {DefaultPeriods(v)}

\* sum(gains) (up = TRUE) or sum(losses) over the last n changes of the
\* closes of w
RECURSIVE SumChanges(_, _, _)
SumChanges(w, n, up) ==
    IF n = 0 THEN 0
    ELSE LET change == w[Len(w)].close - w[Len(w) - 1].close
         IN (IF up THEN (IF change > 0 THEN change ELSE 0)
             ELSE (IF change > 0 THEN 0 ELSE 0 - change))
            + SumChanges(SubSeq(w, 1, Len(w) - 1), n - 1, up)

\* _compute_rsi: 50.0 for fewer than period + 1 candles; otherwise
\* 100 - 100 / (1 + avg_gain / avg_loss), which is 100 * gain / (gain + loss)
\* for the sums over the last `period` changes.  `losses` holds an entry
\* for every change, so avg_loss is 0.0 when no change is a loss, and the
\* division raises ZeroDivisionError.
ComputeRSI(w, period) ==
    IF Len(w) < period + 1
    THEN [kind |-> "placeholder", num |-> 50, den |-> 1]
    ELSE LET gain == SumChanges(w, period, TRUE)
             loss == SumChanges(w, period, FALSE)
         IN IF loss = 0
            THEN [kind |-> "raised", num |-> 0, den |-> 1]
            ELSE [kind |-> "value", num |-> 100 * gain, den |-> gain + loss]

\* the length below which _compute_indicators returns None
ReadyLength(v, cfg) ==
    Max(Max(cfg.bb, cfg.rsi), Max(cfg.atr, Max(cfg.ema_slow, cfg.macd_slow)))

\* _check_atr_expansion or _check_bb_width_expansion of BreakoutTrader gets
\* past its length test: the slice candles[:-(i or None) or len(candles)]
\* raises TypeError for i = 0
ExpansionCheckRaises(v, cfg, n) ==
    v = "breakout" /\ (n >= 2 * cfg.atr \/ n >= 2 * cfg.bb)

\* the indicators that are the value returned for too short a window:
\* RSI 50.0, ATR 0.0, MACD signal 0.9 * MACD
Placeholders(v, cfg, n) ==
    (IF n < cfg.rsi + 1 THEN {"rsi"} ELSE {})
    \cup (IF n < cfg.atr + 1 THEN {"atr"} ELSE {})
    \cup (IF v = "breakout" /\ n < cfg.macd_slow + cfg.macd_signal
          THEN {"macd_signal"} ELSE {})

\* _compute_recent_high_low: the highest high and the lowest low of the
\* last breakout_lookback candles, the latest one included
RecentHigh(w) ==
    LET first == Max(1, Len(w) - breakout_lookback + 1)
        highs == { w[i].high : i \in first..Len(w) }
    IN CHOOSE h \in highs : \A x \in highs : x <= h

RecentLow(w) ==
    LET first == Max(1, Len(w) - breakout_lookback + 1)
        lows == { w[i].low : i \in first..Len(w) }
    IN CHOOSE l \in lows : \A x \in lows : l <= x

\* an RSI as the whole number next to it on the far side from 50, which
\* compares with the whole-number thresholds of _check_entry as the RSI does
RsiAgainstThresholds(num, den) ==
    IF num % den = 0 THEN num \div den
    ELSE IF num > 50 * den THEN num \div den + 1
    ELSE num \div den

\* _compute_indicators for the window w, then _check_entry at the latest
\* close with the other conditions of the entry as `filters` allow
ComputeIndicators(v, cfg, w, filters, maxsize) ==
    IF Len(w) < ReadyLength(v, cfg)
    THEN [NoOutput EXCEPT !.status = "not_ready"]
    ELSE LET rsi == ComputeRSI(w, cfg.rsi) IN
         IF rsi.kind = "raised"
         THEN [NoOutput EXCEPT !.status = "raised",
                               !.error = "ZeroDivisionError"]
         ELSE IF ExpansionCheckRaises(v, cfg, Len(w))
         THEN [NoOutput EXCEPT !.status = "raised", !.error = "TypeError"]
         ELSE [NoOutput EXCEPT
                 !.status = "ready",
                 !.placeholders = Placeholders(v, cfg, Len(w)),
                 !.rsi_num = rsi.num, !.rsi_den = rsi.den,
                 !.filters = filters,
                 !.signal =
                    CheckEntry(v, w[Len(w)].close,
                        [NoIndicators EXCEPT
                           !.rsi = RsiAgainstThresholds(rsi.num, rsi.den),
                           !.filters = filters,
                           !.recent_high = RecentHigh(w),
                           !.recent_low = RecentLow(w)],
                        maxsize)]

InitIndicators ==
    /\ variant \in {"mean_reversion", "breakout"}
    /\ dry_run = TRUE
    /\ has_client = FALSE
    /\ max_position_size = 2
    /\ max_hold_minutes = 1
    /\ budget = [time |-> StartTime, positions |-> 0, idle |-> TRUE,
                 prices |-> {}, errors |-> 0]
    /\ now = StartTime
    /\ stop_set = FALSE
    /\ run_pc = "sleep"
    /\ stop_pc = "idle"
    /\ wake = [t \in Tasks |-> StartTime]
    /\ current_price = 0
    /\ indicators = NoIndicators
    /\ position = NoPosition
    /\ scaled_entries = << >>
    /\ open_orders = {}
    /\ losing_streak = 0
    /\ pause_until = 0
    /\ last_exit_time = 0
    /\ exit_cooldown = base_exit_cooldown(variant)
    /\ recent_exit_reasons = << >>
    /\ trades = 0
    /\ opened = 0
    /\ record_failures = 0
    /\ rejects = 0
    /\ fr = [t \in Tasks |-> IdleFrame]
    /\ obs = NoObs
    /\ hist = NoHist
    /\ \E closes \in CloseWindows : candles = CandlesOf(variant, closes)
    /\ renko = NoRenko
    /\ \E cfg \in PeriodChoices(variant) :
         pipeline = [cfg |-> cfg, out |-> NoOutput]
    /\ trading_client = NoClient
    /\ store = NoStore
    /\ tracker = NoTracker
    /\ app = NoApp

\* a cycle of run() calls _compute_indicators and, with indicators,
\* _check_entry
ComputeIndicatorsCall ==
    /\ pipeline.out.status = "none"
    /\ \E filters \in {"long", "short", "none"} :
         pipeline' = [pipeline EXCEPT !.out =
                        ComputeIndicators(variant, pipeline.cfg, candles,
                                          filters, max_position_size)]
    /\ UNCHANGED << lifecyclevars, now, current_price, obs, candles, renko,
                    trading_client, store, tracker, app >>

NextIndicators == ComputeIndicatorsCall

SpecIndicators == InitIndicators /\ [][NextIndicators]_vars

----------------------------------------------------------------------------
(* The running loop of BreakoutTrader on its candle window: the backfill   *)
(* run() awaits before the loop, then cycles that build the window from    *)
(* the price, compute the indicators and check for an entry.               *)

\* the prices of the state store: those of the candles, and one above the
\* highs of the backfill
BreakoutPrices == CandlePrices \cup {10012}

\* the periods of the configurations the loop runs with
LoopPeriods == {Periods(2, 2, 2, 2, 2, 1), DefaultPeriods("breakout")}

\* the loop starts one cycle before the end of the candle interval after
\* the last one of the backfill
LoopStart(v) == 3 * candle_interval_seconds(v) - PollSleep(v)

InitBreakoutLoop ==
    /\ variant = "breakout"
    /\ dry_run = TRUE
    /\ has_client = FALSE
    /\ max_position_size = 2
    /\ max_hold_minutes = 1
    /\ budget = [time |-> LoopStart(variant) + BreakoutHorizon,
                 positions |-> 0, idle |-> TRUE, prices |-> BreakoutPrices,
                 errors |-> 0]
    /\ now = LoopStart(variant)
    /\ stop_set = FALSE
    /\ run_pc = "sleep"
    /\ stop_pc = "idle"
    /\ wake = [t \in Tasks |-> now]
    /\ current_price = 0
    /\ indicators = NoIndicators
    /\ position = NoPosition
    /\ scaled_entries = << >>
    /\ open_orders = {}
    /\ losing_streak = 0
    /\ pause_until = 0
    /\ last_exit_time = 0
    /\ exit_cooldown = base_exit_cooldown(variant)
    /\ recent_exit_reasons = << >>
    /\ trades = 0
    /\ opened = 0
    /\ record_failures = 0
    /\ rejects = 0
    /\ fr = [t \in Tasks |-> IdleFrame]
    /\ obs = NoObs
    /\ hist = NoHist
    /\ \E response \in Responses(variant) :
         candles = FetchCandles(<< >>, response)
    /\ renko = NoRenko
    /\ \E cfg \in LoopPeriods : pipeline = [cfg |-> cfg, out |-> NoOutput]
    /\ trading_client = NoClient
    /\ store = NoStore
    /\ tracker = NoTracker
    /\ app = NoApp

\* a cycle of run() with a price: _build_candles_from_price,
\* _compute_indicators and, with indicators, _check_entry at that price; an
\* exception ends the cycle in the handler of the loop
BreakoutCycle ==
    /\ now + PollSleep(variant) <= budget.time
    /\ \E price \in budget.prices, filters \in {"long", "short", "none"} :
         /\ candles' = BuildCandlesFromPrice(variant, candles, price, now)
         /\ current_price' = price
         /\ pipeline' = [pipeline EXCEPT !.out =
                           ComputeIndicators(variant, pipeline.cfg, candles',
                                             filters, max_position_size)]
    /\ obs' = [NoObs EXCEPT !.task = "run", !.kind = "cycle"]
    /\ now' = now + PollSleep(variant)
    /\ UNCHANGED << lifecyclevars, renko, trading_client, store, tracker,
                    app >>

\* a cycle of run() without a price: the window is left alone and the
\* cycle ends before _compute_indicators
BreakoutCycleNoPrice ==
    /\ now + PollSleep(variant) <= budget.time
    /\ current_price' = 0
    /\ pipeline' = [pipeline EXCEPT !.out = NoOutput]
    /\ obs' = [NoObs EXCEPT !.task = "run", !.kind = "cycle"]
    /\ now' = now + PollSleep(variant)
    /\ UNCHANGED << lifecyclevars, candles, renko, trading_client, store,
                    tracker, app >>

NextBreakoutLoop ==
    \/ BreakoutCycle
    \/ BreakoutCycleNoPrice

SpecBreakoutLoop == InitBreakoutLoop /\ [][NextBreakoutLoop]_vars

----------------------------------------------------------------------------
(* TradingClient: create_limit_order called by the tasks that share the    *)
(* client.  A call can be suspended at each of its awaits; the body of     *)
(* `async with self._lock` in _next_order_index has no await.              *)

\* _next_order_index that returns the next index without storing it
NextOrderIndexNoStore(c, t) ==
    [c EXCEPT !.call[t] = [pc |-> "submit", idx |-> c.next + 1],
              !.issued = Append(@, c.next + 1)]

\* _next_order_index, and the call going on to signer.create_order
NextOrderIndex(c, t) ==
    [c EXCEPT !.next = c.next + 1,
              !.call[t] = [pc |-> "submit", idx |-> c.next + 1],
              !.issued = Append(@, c.next + 1)]

InitTradingClient ==
    /\ variant \in Variants
    /\ dry_run = FALSE
    /\ has_client = TRUE
    /\ max_position_size = 2
    /\ max_hold_minutes = 1
    /\ budget = [time |-> StartTime, positions |-> 0, idle |-> TRUE,
                 prices |-> {}, errors |-> 0]
    /\ now = StartTime
    /\ stop_set = FALSE
    /\ run_pc = "sleep"
    /\ stop_pc = "idle"
    /\ wake = [t \in Tasks |-> StartTime]
    /\ current_price = 0
    /\ indicators = NoIndicators
    /\ position = NoPosition
    /\ scaled_entries = << >>
    /\ open_orders = {}
    /\ losing_streak = 0
    /\ pause_until = 0
    /\ last_exit_time = 0
    /\ exit_cooldown = base_exit_cooldown(variant)
    /\ recent_exit_reasons = << >>
    /\ trades = 0
    /\ opened = 0
    /\ record_failures = 0
    /\ rejects = 0
    /\ fr = [t \in Tasks |-> IdleFrame]
    /\ obs = NoObs
    /\ hist = NoHist
    /\ candles = << >>
    /\ renko = NoRenko
    /\ pipeline = NoPipeline
    /\ trading_client = NoClient
    /\ store = NoStore
    /\ tracker = NoTracker
    /\ app = NoApp

\* a task calls create_limit_order and reaches `await self._require_signer()`
CreateLimitOrderCall(t) ==
    /\ trading_client.call[t].pc = "idle"
    /\ trading_client.started < MaxOrders
    /\ trading_client' = [trading_client EXCEPT !.started = @ + 1,
                                !.call[t] = [pc |-> "signer", idx |-> 0]]
    /\ UNCHANGED << tradervars, store, tracker, app >>

\* ensure_ready returns the signer, creating it if there is none, or raises
\* (no SDK, or a failed health check) and the call ends
RequireSigner(t) ==
    /\ trading_client.call[t].pc = "signer"
    /\ \/ trading_client' = [trading_client EXCEPT !.has_signer = TRUE,
                                   !.call[t] = [pc |-> "index", idx |-> 0]]
       \/ /\ ~trading_client.has_signer
          /\ trading_client' = [trading_client EXCEPT !.call[t] = NoCall]
    /\ UNCHANGED << tradervars, store, tracker, app >>

\* `client_order_index = await self._next_order_index()`, then the scaling
\* of size and price, which raises ValueError for a value that scales to
\* no positive integer
TakeOrderIndex(t) ==
    /\ trading_client.call[t].pc = "index"
    /\ \E scales \in BOOLEAN :
         trading_client' = IF scales THEN NextOrderIndex(trading_client, t)
                   ELSE [NextOrderIndex(trading_client, t) EXCEPT !.call[t] = NoCall]
    /\ UNCHANGED << tradervars, store, tracker, app >>

\* signer.create_order answers: the PlacedOrder is returned, or err is set
\* and RuntimeError raised
CreateOrderAnswer(t) ==
    /\ trading_client.call[t].pc = "submit"
    /\ \E err \in BOOLEAN :
         trading_client' = [trading_client EXCEPT
                      !.call[t] = NoCall,
                      !.placed = IF err THEN @
                                 ELSE @ \cup {trading_client.call[t].idx}]
    /\ UNCHANGED << tradervars, store, tracker, app >>

NextTradingClient ==
    \E t \in Callers :
        \/ CreateLimitOrderCall(t)
        \/ RequireSigner(t)
        \/ TakeOrderIndex(t)
        \/ CreateOrderAnswer(t)

SpecTradingClient == InitTradingClient /\ [][NextTradingClient]_vars

----------------------------------------------------------------------------
(* StateStore: the price feeds write mid prices, the traders read them.    *)

\* what set_mid and update_mid are called with: a float, an int, or None
WriteArgs ==
    { [type |-> ty, value |-> x] : ty \in {"float", "int"},
                                  x \in {10000, 10006} }
    \cup { [type |-> "none", value |-> 0] }

\* float(price) raises no TypeError
FloatAccepts(price) == price.type # "none"

\* float(price)
Float(price) == [has |-> TRUE, type |-> "float", value |-> price.value]

\* a store that keeps the first price written for a market
SetMidFirstWins(mids, market_id, price) ==
    IF mids[market_id].has THEN mids
    ELSE [mids EXCEPT ![market_id] = Float(price)]

\* set_mid and update_mid: self._mids[market_id] = float(price)
SetMid(mids, market_id, price) ==
    [mids EXCEPT ![market_id] = Float(price)]

\* get_mid: self._mids.get(market_id)
GetMid(mids, market_id) == mids[market_id]

InitStateStore ==
    /\ variant \in Variants
    /\ dry_run = TRUE
    /\ has_client = FALSE
    /\ max_position_size = 2
    /\ max_hold_minutes = 1
    /\ budget = [time |-> StartTime, positions |-> 0, idle |-> TRUE,
                 prices |-> {}, errors |-> 0]
    /\ now = StartTime
    /\ stop_set = FALSE
    /\ run_pc = "sleep"
    /\ stop_pc = "idle"
    /\ wake = [t \in Tasks |-> StartTime]
    /\ current_price = 0
    /\ indicators = NoIndicators
    /\ position = NoPosition
    /\ scaled_entries = << >>
    /\ open_orders = {}
    /\ losing_streak = 0
    /\ pause_until = 0
    /\ last_exit_time = 0
    /\ exit_cooldown = base_exit_cooldown(variant)
    /\ recent_exit_reasons = << >>
    /\ trades = 0
    /\ opened = 0
    /\ record_failures = 0
    /\ rejects = 0
    /\ fr = [t \in Tasks |-> IdleFrame]
    /\ obs = NoObs
    /\ hist = NoHist
    /\ candles = << >>
    /\ renko = NoRenko
    /\ pipeline = NoPipeline
    /\ trading_client = NoClient
    /\ store = NoStore
    /\ tracker = NoTracker
    /\ app = NoApp

\* a call of set_mid: a price float() rejects raises before the assignment
SetMidCall ==
    /\ Len(store.writes) < MaxWrites
    /\ \E m \in Markets, price \in WriteArgs :
         store' = IF FloatAccepts(price)
                  THEN [store EXCEPT
                          !.mids = SetMid(@, m, price),
                          !.writes = Append(@, [market |-> m, by |-> "set_mid",
                                                value |-> price.value])]
                  ELSE store
    /\ UNCHANGED << tradervars, trading_client, tracker, app >>

\* a call of update_mid
UpdateMidCall ==
    /\ Len(store.writes) < MaxWrites
    /\ \E m \in Markets, price \in WriteArgs :
         store' = IF FloatAccepts(price)
                  THEN [store EXCEPT
                          !.mids = SetMid(@, m, price),
                          !.writes = Append(@, [market |-> m,
                                                by |-> "update_mid",
                                                value |-> price.value])]
                  ELSE store
    /\ UNCHANGED << tradervars, trading_client, tracker, app >>

\* a call of get_mid, after `at` writes
GetMidCall ==
    /\ \E m \in Markets :
         store' = [store EXCEPT
                     !.got = [market |-> m, at |-> Len(store.writes),
                              result |-> GetMid(store.mids, m)]]
    /\ UNCHANGED << tradervars, trading_client, tracker, app >>

NextStateStore ==
    \/ SetMidCall
    \/ UpdateMidCall
    \/ GetMidCall

SpecStateStore == InitStateStore /\ [][NextStateStore]_vars

----------------------------------------------------------------------------
(* PositionTracker: save_position, load_position and delete_position, each *)
(* under the lock of the tracker and without an await inside it.           *)

\* an entry of a scaled_entries list
ScaledEntry(t, price, size) ==
    [time |-> t, price |-> price, size |-> size, order_index |-> 0]

\* the position dictionaries that are saved: those the traders hold, with
\* or without "initial_size" and "scaled_entries"
SavedPositions ==
    { [side |-> sd, entry_price |-> 10000, size |-> 2,
       stop_loss |-> IF sd = "long" THEN 9993 ELSE 10007,
       take_profit |-> IF sd = "long" THEN 10014 ELSE 9986,
       entry_time |-> StartTime,
       order_index |-> IF sd = "long" THEN 0 ELSE ClockMillis + 1,
       has_initial_size |-> sd = "short", initial_size |-> 2,
       has_scaled_entries |-> FALSE, scaled_entries |-> << >>] :
        sd \in {"long", "short"} }
    \cup
    { [side |-> "long", entry_price |-> 10003, size |-> 3, stop_loss |-> 9996,
       take_profit |-> 10017, entry_time |-> StartTime,
       order_index |-> ClockMillis + 1, has_initial_size |-> TRUE,
       initial_size |-> 2, has_scaled_entries |-> TRUE,
       scaled_entries |-> entries] :
        entries \in { << >>, << ScaledEntry(StartTime + 5, 10006, 1) >> } }

\* json.dumps of a list
JsonDumps(entries) == [json |-> TRUE, value |-> entries]

\* json.loads, and [] for a text it rejects
JsonLoads(text) == IF text.json THEN text.value ELSE << >>

\* the values save_position binds to the columns
RowValues(pos) ==
    [side |-> pos.side, entry_price |-> pos.entry_price,
     size |-> pos.size, stop_loss |-> pos.stop_loss,
     take_profit |-> pos.take_profit,
     entry_time |-> pos.entry_time,
     order_index |-> pos.order_index,
     initial_size |-> IF pos.has_initial_size
                      THEN pos.initial_size ELSE pos.size,
     scaled_entries |-> JsonDumps(IF pos.has_scaled_entries
                                  THEN pos.scaled_entries ELSE << >>)]

\* save_position with INSERT OR IGNORE: a row that is there is kept
SavePositionKeepsRow(rows, key, pos) ==
    IF rows[key].has THEN rows
    ELSE [rows EXCEPT ![key] = [has |-> TRUE, row |-> RowValues(pos)]]

\* save_position: INSERT OR REPLACE of the row of (strategy, market)
SavePosition(rows, key, pos) ==
    [rows EXCEPT ![key] = [has |-> TRUE, row |-> RowValues(pos)]]

\* delete_position
DeletePosition(rows, key) ==
    [rows EXCEPT ![key] = [has |-> FALSE, row |-> RowValues(NoSaved)]]

\* load_position: None without a row, else the dictionary made of it
LoadPosition(rows, key) ==
    IF ~rows[key].has THEN NoRow
    ELSE LET row == rows[key].row
         IN [has |-> TRUE, side |-> row.side, entry_price |-> row.entry_price,
             size |-> row.size, stop_loss |-> row.stop_loss,
             take_profit |-> row.take_profit, entry_time |-> row.entry_time,
             order_index |-> IF row.order_index # 0 THEN row.order_index
                             ELSE 0,
             initial_size |-> IF row.initial_size # 0 THEN row.initial_size
                              ELSE row.size,
             scaled_entries |-> JsonLoads(row.scaled_entries),
             recovered |-> TRUE]

InitTracker ==
    /\ variant = "renko_ao"
    /\ dry_run = TRUE
    /\ has_client = FALSE
    /\ max_position_size = 2
    /\ max_hold_minutes = 1
    /\ budget = [time |-> StartTime, positions |-> 0, idle |-> TRUE,
                 prices |-> {}, errors |-> 0]
    /\ now = StartTime
    /\ stop_set = FALSE
    /\ run_pc = "sleep"
    /\ stop_pc = "idle"
    /\ wake = [t \in Tasks |-> StartTime]
    /\ current_price = 0
    /\ indicators = NoIndicators
    /\ position = NoPosition
    /\ scaled_entries = << >>
    /\ open_orders = {}
    /\ losing_streak = 0
    /\ pause_until = 0
    /\ last_exit_time = 0
    /\ exit_cooldown = base_exit_cooldown(variant)
    /\ recent_exit_reasons = << >>
    /\ trades = 0
    /\ opened = 0
    /\ record_failures = 0
    /\ rejects = 0
    /\ fr = [t \in Tasks |-> IdleFrame]
    /\ obs = NoObs
    /\ hist = NoHist
    /\ candles = << >>
    /\ renko = NoRenko
    /\ pipeline = NoPipeline
    /\ trading_client = NoClient
    /\ store = NoStore
    /\ tracker = NoTracker
    /\ app = NoApp

SavePositionCall ==
    /\ Len(tracker.log) < MaxTrackerOps
    /\ \E key \in TrackerKeys, pos \in SavedPositions :
         tracker' = [tracker EXCEPT
                       !.rows = SavePosition(@, key, pos),
                       !.log = Append(@, [op |-> "save", key |-> key,
                                          position |-> pos])]
    /\ UNCHANGED << tradervars, trading_client, store, app >>

DeletePositionCall ==
    /\ Len(tracker.log) < MaxTrackerOps
    /\ \E key \in TrackerKeys :
         tracker' = [tracker EXCEPT
                       !.rows = DeletePosition(@, key),
                       !.log = Append(@, [op |-> "delete", key |-> key,
                                          position |-> NoSaved])]
    /\ UNCHANGED << tradervars, trading_client, store, app >>

\* a call of load_position, after `at` saves and deletes
LoadPositionCall ==
    /\ \E key \in TrackerKeys :
         tracker' = [tracker EXCEPT
                       !.got = [key |-> key, at |-> Len(tracker.log),
                                result |-> LoadPosition(tracker.rows, key)]]
    /\ UNCHANGED << tradervars, trading_client, store, app >>

NextTracker ==
    \/ SavePositionCall
    \/ DeletePositionCall
    \/ LoadPositionCall

SpecTracker == InitTracker /\ [][NextTracker]_vars

----------------------------------------------------------------------------
(* _update_adaptive_cooldown of BreakoutTrader and RenkoAOTrader, called   *)
(* with any volatility, losing streak and recent exit reasons.             *)

\* volatility in bps: below, between and above the thresholds of both
\* traders
CooldownVols == {1, 2, 5, 9, 12}

\* the recent exit reasons: deque(maxlen=5), up to MaxReasons of them here
ReasonLists ==
    SeqsOver({"stop_loss", "take_profit", "breakout_failure"}, MaxReasons)

InitCooldown ==
    /\ variant \in {"renko_ao", "breakout"}
    /\ dry_run = TRUE
    /\ has_client = FALSE
    /\ max_position_size = 2
    /\ max_hold_minutes = 1
    /\ budget = [time |-> StartTime, positions |-> 0, idle |-> TRUE,
                 prices |-> {}, errors |-> 0]
    /\ now = StartTime
    /\ stop_set = FALSE
    /\ run_pc = "sleep"
    /\ stop_pc = "idle"
    /\ wake = [t \in Tasks |-> StartTime]
    /\ current_price = 0
    /\ \E vol \in CooldownVols : indicators = [NoIndicators EXCEPT !.vol = vol]
    /\ position = NoPosition
    /\ scaled_entries = << >>
    /\ open_orders = {}
    /\ losing_streak \in 0..3
    /\ pause_until = 0
    /\ last_exit_time = 0
    /\ exit_cooldown = base_exit_cooldown(variant)
    /\ recent_exit_reasons \in ReasonLists
    /\ trades = 0
    /\ opened = 0
    /\ record_failures = 0
    /\ rejects = 0
    /\ fr = [t \in Tasks |-> IdleFrame]
    /\ obs = NoObs
    /\ hist = NoHist
    /\ candles = << >>
    /\ renko = NoRenko
    /\ pipeline = NoPipeline
    /\ trading_client = NoClient
    /\ store = NoStore
    /\ tracker = NoTracker
    /\ app = NoApp

\* a call of _update_adaptive_cooldown with indicators (and a price)
UpdateAdaptiveCooldownCall ==
    /\ obs.kind # "cooldown"
    /\ exit_cooldown' = AdaptiveCooldown(variant, indicators, losing_streak,
                                         recent_exit_reasons)
    /\ obs' = [NoObs EXCEPT !.task = "run", !.kind = "cooldown"]
    /\ UNCHANGED << cfgvars, now, stop_set, run_pc, stop_pc, wake,
                    current_price, indicators, position, scaled_entries,
                    open_orders, losing_streak, pause_until, last_exit_time,
                    recent_exit_reasons, trades, opened, record_failures,
                    rejects, fr, hist >>

NextCooldown == UpdateAdaptiveCooldownCall

SpecCooldown == InitCooldown /\ [][NextCooldown]_vars

----------------------------------------------------------------------------
(* Properties                                                              *)

\* C1: the entry signal is evaluated only while no position is open, and the
\* exit check and the scale-in check only while one is open
EntryOnlyFlatExitOnlyOpen ==
    /\ obs.entry_at # "open"
    /\ obs.exit_at # "flat"
    /\ obs.scale_at # "flat"

\* an exit check ran on the open position and let it stand
ExitCheckedWhileOpen ==
    /\ obs.exit_at = "open"
    /\ obs.why = "none"
    /\ position.open

\* C2: an exit whose order could not be executed
\* leaves the position, the trade records, the loss streak and the cooldown
\* as they were
UnexecutedExitKeepsPosition ==
    [][obs'.unexecuted =>
         /\ position'.open = position.open
         /\ trades' = trades
         /\ losing_streak' = losing_streak
         /\ last_exit_time' = last_exit_time]_vars

\* C3: a position is cleared only with a trade
\* record, or by the forced exit of stop()
ClearedOnlyWithRecord ==
    [][position.open /\ ~position'.open =>
         trades' = trades + 1 \/ obs'.why = "stop"]_vars

\* C4: once stop() has returned and run() has
\* ended, no position is open
StoppedMeansFlat ==
    stop_pc = "done" /\ run_pc = "ended" => ~position.open

\* an entry that fails for one of the reasons C5 names: the size below the
\* minimum, no trading client in live mode, a submission that raises, or the
\* retries used up
EntryFails ==
    /\ obs.task = "run"
    /\ \/ obs.size > 0 /\ obs.size < min_position_size
       \/ obs.size > 0 /\ ~has_client /\ ~dry_run
       \/ obs.kind = "enter" /\ obs.outcome = "other"
       \/ obs.kind = "enter" /\ obs.outcome = "none" /\ obs.subs = max_retries

\* C5: a failed entry leaves the trader flat, records no order as open,
\* leaves no submission pending and has made at most max_retries submissions
FailedEntryStaysFlat ==
    [][EntryFails' =>
         /\ ~position'.open
         /\ open_orders' \subseteq open_orders
         /\ fr'["run"] = IdleFrame
         /\ obs'.subs <= max_retries]_vars

\* an entry submission raised an error that is not retried, and the trader
\* is flat
EntryRaisedAndFlat ==
    /\ obs.kind = "enter"
    /\ obs.outcome = "other"
    /\ obs.enter = "failed"
    /\ ~position.open

\* C6: a rate-limited submission of an entry or an
\* exit is retried, up to max_retries submissions, after 1 s, 2 s, 4 s
RateLimitRetried ==
    [][obs'.outcome = "rate_limit" /\ obs'.kind \in {"enter", "exit"} =>
         /\ obs'.subs <= max_retries
         /\ obs'.backoff = Pow2(obs'.subs - 1)
         /\ obs'.subs < max_retries => obs'.retry]_vars

\* C7: the second invalid-nonce answer of a
\* transition is not retried
NonceRetriedOnce ==
    [][/\ obs'.outcome = "invalid_nonce"
       /\ obs'.kind \in {"enter", "exit"}
       /\ fr[obs'.task].nonces >= 1
       => ~obs'.retry]_vars

\* C8: an error that is neither a rate limit nor an invalid nonce ends the
\* transition at once: the task is no longer in it, and the position, the
\* trade records, the loss streak and the cooldown are as before
OtherErrorAborts ==
    [][obs'.outcome = "other" /\ obs'.kind \in {"enter", "exit"} =>
         /\ fr'[obs'.task].op # obs'.kind
         /\ ~obs'.retry
         /\ position' = position
         /\ trades' = trades
         /\ losing_streak' = losing_streak
         /\ last_exit_time' = last_exit_time]_vars

\* an exit submission raised such an error and the position is still open
ExitRaisedAndOpen ==
    /\ obs.kind = "exit"
    /\ obs.outcome = "other"
    /\ obs.exit = "failed"
    /\ position.open

\* C9: after max_losing_streak_before_pause losing
\* exits in a row no entry signal is evaluated before the pause has passed
NoEntryDuringPause ==
    /\ obs.entry_at # "none"
    /\ hist.losses >= max_losing_streak_before_pause(variant)
    => now >= hist.nth_loss_time + pause_duration_seconds(variant)

\* C10: no entry signal is evaluated in the cycle
\* of an exit, nor before the cooldown has passed since the last exit
NoEntryDuringCooldown ==
    obs.entry_at # "none" =>
      /\ ~hist.exit_in_cycle
      /\ hist.exit_time = -1 \/ (now - hist.exit_time) * 1000 >= exit_cooldown

\* a task makes a submission of an entry or exit order in this step
Submits(tk) ==
    /\ fr'[tk].op \in {"enter", "exit"}
    /\ fr'[tk].pc = "submit"
    /\ fr[tk].pc # "submit"

\* C11: when an entry or exit order is submitted, every tracked order older
\* than the order timeout has had its cancel issued: none is left in the
\* order map without a cancel call having been made for it
SweepBeforeSubmission ==
    [][\A tk \in Tasks :
         Submits(tk) =>
           \A o \in StaleOrders(open_orders', now') : o.tried]_vars

\* C12: while a breakout position stays open its stop never gets worse: the
\* stop of a long never decreases, that of a short never increases
TrailingStopOnlyTightens ==
    [][position.open /\ position'.open /\ variant = "breakout" =>
         IF position.side = "long"
         THEN position'.stop_num * position.stop_den
                >= position.stop_num * position'.stop_den
         ELSE position'.stop_num * position.stop_den
                <= position.stop_num * position'.stop_den]_vars

\* a call of _check_exit on a position whose stop had been trailed: the
\* trailing stop is active in this call too (the MFE in percent reaches the
\* ATR in bps), its level is wider than the stop, the stop is left where it
\* was and the position stays open
WiderTrailRefused ==
    /\ obs.kind = "check_exit"
    /\ obs.why = "none"
    /\ ~obs.trail
    /\ position.open
    /\ indicators.atr > 0
    /\ position.mfe * 100 >= indicators.atr * 10000
    /\ position.stop_den = 2
    /\ IF position.side = "long"
       THEN position.stop_num > 2 * current_price - indicators.atr
       ELSE position.stop_num < 2 * current_price + indicators.atr

\* C13: in a call of _check_exit in which the best favourable price move
\* since entry is at least one ATR (ATR > 0), the trailing-stop update is
\* applied: afterwards the stop is no further from the price than half an
\* ATR (trailing_stop_distance_atr)
TrailingAppliedAtOneATR ==
    [][/\ obs'.kind = "check_exit"
       /\ indicators'.atr > 0
       /\ position'.mfe >= indicators'.atr * position'.entry_den
       => IF position'.side = "long"
          THEN position'.stop_num * 2
                 >= (2 * current_price' - indicators'.atr) * position'.stop_den
          ELSE position'.stop_num * 2
                 <= (2 * current_price' + indicators'.atr) * position'.stop_den]_vars

\* a scale-in is performed in this step
ScalesIn == Len(scaled_entries') > Len(scaled_entries)

\* the price of the initial fill of a Renko+AO position: a scale-in leaves
\* the take-profit level, entry_price * (1 +- take_profit_bps / 10000), as
\* _create_signal set it
InitialFill(pos) ==
    IF pos.side = "long"
    THEN pos.tp_num \div (10000 + take_profit_bps("renko_ao"))
    ELSE pos.tp_num \div (10000 - take_profit_bps("renko_ao"))

RECURSIVE FillsSize(_)
\* the total size of the scaled fills
FillsSize(fills) ==
    IF fills = << >> THEN 0 ELSE Head(fills).size + FillsSize(Tail(fills))

RECURSIVE FillsValue(_)
\* the sum of price * size over the scaled fills
FillsValue(fills) ==
    IF fills = << >> THEN 0
    ELSE Head(fills).price * Head(fills).size + FillsValue(Tail(fills))

\* C14: a scale-in makes the size of the position strictly larger, there
\* are never more than max_scales of them, and afterwards entry_price is the
\* size-weighted mean of the initial fill and all scaled fills
ScaleInGrowsAndAverages ==
    [][ScalesIn =>
         /\ position'.size > position.size
         /\ Len(scaled_entries') <= max_scales
         /\ position'.size = position'.initial_size + FillsSize(scaled_entries')
         /\ position'.entry_num * position'.size
              = position'.entry_den
                  * (InitialFill(position') * position'.initial_size
                       + FillsValue(scaled_entries'))]_vars

\* the position has been scaled into max_scales times and is open
ScaledToTheMaximum ==
    /\ position.open
    /\ Len(scaled_entries) = max_scales
    /\ obs.kind = "scale"
    /\ obs.outcome = "ok"

\* a / b = (c / d) * (e / f), for positive integers, each fraction brought
\* to lowest terms before the comparison
IsProduct(a, b, c, d, e, f) ==
    LET g1 == GCD(c, f)
        g2 == GCD(e, d)
        n == (c \div g1) * (e \div g2)
        m == (d \div g2) * (f \div g1)
        g3 == GCD(n, m)
        g4 == GCD(a, b)
    IN a \div g4 = n \div g3 /\ b \div g4 = m \div g3

\* C15: after the k-th scale-in the stop is stop_loss_bps times the
\* multiplier 2.0, 2.5, 3.0 (k = 1, 2, 3) away from the new average entry:
\* average * (1 -+ stop_loss_bps * (3 + k) / 20000)
ScaledStopMultiplier ==
    [][ScalesIn =>
         LET k == Len(scaled_entries')
             d == stop_loss_bps("renko_ao") * (3 + k)
             f == IF position'.side = "long" THEN 20000 - d ELSE 20000 + d
         IN IsProduct(position'.stop_num, position'.stop_den,
                      position'.entry_num, position'.entry_den, f, 20000)]_vars

\* C16: _check_scale_in goes on to place a scale order only in a cycle in
\* which the position is open, no exit reason fired, the divergence has
\* the direction of the position, the price is at least
\* scale_price_threshold_bps against the average entry, at least
\* scale_interval_seconds have passed since the last scale-in (or the
\* entry) and fewer than max_scales scale-ins were made; and a scale-in is
\* performed only by the answer to such an order
ScaleOnlyWhenAllowed ==
    [][/\ run_pc' = "scale" /\ run_pc # "scale" =>
            LET price == fr'["run"].xprice
                last == IF scaled_entries = << >> THEN position.entry_time
                        ELSE scaled_entries[Len(scaled_entries)].time
            IN /\ position.open
               /\ obs'.exit_at = "open" /\ obs'.why = "none"
               /\ obs'.div = (IF position.side = "long" THEN "bullish"
                              ELSE "bearish")
               /\ IF position.side = "long"
                  THEN (position.entry_num - price * position.entry_den) * 10000
                         >= scale_price_threshold_bps * position.entry_num
                  ELSE (price * position.entry_den - position.entry_num) * 10000
                         >= scale_price_threshold_bps * position.entry_num
               /\ now' - last >= scale_interval_seconds
               /\ Len(scaled_entries) < max_scales
       /\ ScalesIn =>
            /\ run_pc = "scale"
            /\ fr["run"].op = "scale"
            /\ position.open
            /\ Len(scaled_entries') = Len(scaled_entries) + 1]_vars

\* a second scale-in has been made, scale_interval_seconds or more after
\* the first
ScaledASecondTime ==
    /\ obs.kind = "scale"
    /\ obs.outcome = "ok"
    /\ Len(scaled_entries) = 2
    /\ scaled_entries[2].time - scaled_entries[1].time >= scale_interval_seconds

\* C17: an exit that finds no value in the price source puts no other
\* value in its place: it records no trade, updates no loss streak and
\* submits no exit order
NoExitWithoutObservedPrice ==
    [][obs'.no_price =>
          /\ trades' = trades
          /\ losing_streak' = losing_streak
          /\ fr' = fr]_vars

\* C18: an exception raised in a cycle is caught by the `except Exception`
\* of the loop, run() then sleeps ErrorSleep seconds and makes no step
\* before that sleep is over, and run() ends only at a `while` test that
\* finds the stop event set
CycleExceptionNeverEndsRun ==
    [][/\ obs'.kind = "error" =>
            /\ run_pc' = "sleep"
            /\ wake'["run"] = now' + ErrorSleep(variant)
       /\ (obs'.task = "run" /\ hist.error_time >= 0) =>
            now' >= hist.error_time + ErrorSleep(variant)
       /\ (run_pc' = "ended" /\ run_pc # "ended") => stop_set]_vars

\* after a cycle that raised, the next cycle ran with a price and
\* indicators, the stop event not being set
CycleAfterException ==
    /\ obs.task = "run"
    /\ obs.kind = "cycle"
    /\ hist.error_time >= 0
    /\ now >= hist.error_time + ErrorSleep(variant)
    /\ ~stop_set

\* C19: a cycle of run() starts only when the cycle before it has finished:
\* run() is in the sleep that ended it, no order submission, retry or
\* backoff of _enter_position, _exit_position or _check_scale_in is pending
\* in run(), and that sleep is over
CyclesNeverOverlap ==
    [][obs'.kind \in {"cycle", "nodata", "error"} =>
          /\ run_pc = "sleep"
          /\ fr["run"] = IdleFrame
          /\ now' >= wake["run"]]_vars

\* a cycle has started after a cycle in which an entry order was refused,
\* waited for and submitted again
CycleAfterRetriedEntry ==
    /\ obs.task = "run"
    /\ obs.kind = "cycle"
    /\ rejects > 0
    /\ position.open
    /\ position.order_index > 0
    /\ now >= position.entry_time + PollSleep(variant)

Occurrences(cs, x) == Cardinality({ i \in 1..Len(cs) : cs[i] = x })

\* the candles of a response that have every field a number and a positive
\* open_time
ValidEntries(response) ==
    { i \in 1..Len(response.candles) :
        /\ response.candles[i].parses
        /\ response.candles[i].open_time > 0 }

\* C21: a backfill whose response holds a list with at least one entry of
\* well-formed fields and positive open_time leaves, in that one step, a
\* window that holds exactly those entries, sorted by open_time; any other
\* backfill leaves the window as it was
BackfillReplacesOrKeeps ==
    [][obs'.kind = "fetch" =>
         LET r == obs'.response
             valid == ValidEntries(r)
         IN IF r.status = "ok" /\ valid # {}
            THEN /\ Len(candles') = Cardinality(valid)
                 /\ \A i \in valid :
                      LET e == r.candles[i]
                          x == Candle(e.open_time, e.open, e.high, e.low,
                                      e.close, e.volume)
                      IN Occurrences(candles', x)
                           = Cardinality({ j \in valid : r.candles[j] = e })
                 /\ \A i \in 1..(Len(candles') - 1) :
                      candles'[i].open_time <= candles'[i + 1].open_time
            ELSE candles' = candles]_vars

\* a backfill has replaced the window by a batch that came with the later
\* candle first
BackfillSorted ==
    /\ obs.kind = "fetch"
    /\ Len(obs.response.candles) = 2
    /\ ValidEntries(obs.response) = {1, 2}
    /\ obs.response.candles[1].open_time > obs.response.candles[2].open_time
    /\ Len(candles) = 2

\* a backfill whose entries are all dropped has left a window built from
\* ticks as it was
BackfillWithoutValidCandle ==
    /\ obs.kind = "fetch"
    /\ obs.response.status = "ok"
    /\ obs.response.candles # << >>
    /\ ValidEntries(obs.response) = {}
    /\ candles # << >>
    /\ candles[Len(candles)].volume = 0

\* the divisions of the brick arithmetic left no remainder
BrickArithmeticExact == obs.exact

\* the close of the last completed brick: the open of the brick in progress
LastBrickClose == renko.current_brick.open

\* C22: a brick is appended in a cycle exactly when the price of the cycle
\* is at least the brick size of the cycle away from the close of the last
\* completed brick
BrickAtOneBrickSize ==
    [][(obs'.kind = "renko" /\ renko.current_brick.set
        /\ renko'.sized /\ renko'.brick_size > 0) =>
          (Len(renko'.renko_bricks) = Len(renko.renko_bricks) + 1
             <=> Abs(current_price' - LastBrickClose)
                   >= renko'.brick_size)]_vars

\* C23: once a price has been observed the brick size is set and positive
BrickSizePositive ==
    renko.price_history # << >> => renko.sized /\ renko.brick_size > 0

\* C24: _compute_indicators returns indicators only for a window that gives
\* every indicator the candles it needs: none of RSI, ATR and MACD signal
\* is the value returned for too short a window
NoPlaceholderIndicators ==
    pipeline.out.status = "ready" => pipeline.out.placeholders = {}

\* C25: for a window of at least rsi_period + 1 candles _compute_rsi raises
\* no division error and returns a value within [0, 100]
RsiWithinRange ==
    (pipeline.out.status # "none" /\ Len(candles) >= pipeline.cfg.rsi + 1
     /\ Len(candles) >= ReadyLength(variant, pipeline.cfg)) =>
        /\ pipeline.out.error # "ZeroDivisionError"
        /\ pipeline.out.status = "ready" =>
             /\ pipeline.out.rsi_num >= 0
             /\ pipeline.out.rsi_num <= 100 * pipeline.out.rsi_den

\* C28: closes 100, 99, ..., 91 three times over with RSI period 14 give the
\* trend-following policy an RSI below 30 and, where the other conditions
\* of a long entry hold, a long Signal with stop_loss < entry_price <
\* take_profit
FallingClosesGiveLong ==
    (/\ variant = "mean_reversion"
     /\ candles = CandlesOf(variant, FallingCloses)
     /\ pipeline.cfg.rsi = 14
     /\ pipeline.out.status # "none"
     /\ pipeline.out.filters = "long") =>
        /\ pipeline.out.status = "ready"
        /\ pipeline.out.rsi_num < 30 * pipeline.out.rsi_den
        /\ pipeline.out.signal.side = "long"
        /\ pipeline.out.signal.stop_num
             < pipeline.out.signal.entry_price * pipeline.out.signal.stop_den
        /\ pipeline.out.signal.entry_price * pipeline.out.signal.tp_den
             < pipeline.out.signal.tp_num

\* C26: a cycle of the running loop whose price, the close of the latest
\* candle, is above the recent high of the window it found, with an RSI
\* above the bullish threshold of 60 and the other conditions of a long
\* entry holding, emits a long Signal whose breakout_level is that recent
\* high
BreakoutAboveRecentHighEntersLong ==
    [][(/\ obs'.kind = "cycle"
        /\ candles # << >>
        /\ current_price' > RecentHigh(candles)
        /\ pipeline'.out.status = "ready"
        /\ pipeline'.out.placeholders = {}
        /\ pipeline'.out.rsi_num > 60 * pipeline'.out.rsi_den
        /\ pipeline'.out.filters = "long") =>
            /\ pipeline'.out.signal.side = "long"
            /\ pipeline'.out.signal.level = RecentHigh(candles)]_vars

\* a cycle of the running loop emits a long Signal
LongSignalInTheLoop ==
    obs.kind = "cycle" /\ pipeline.out.signal.side = "long"

\* the latest close is back through the breakout level of the position
ClosedThroughLevel ==
    \/ position.side = "long" /\ current_price < position.level
    \/ position.side = "short" /\ current_price > position.level

\* C27: a call of _check_exit on an open breakout position whose latest
\* close is back through the breakout level returns "breakout_failure",
\* whatever the stop, the target and the time held
BreakoutFailureFirst ==
    (obs.kind = "check_exit" /\ position.open /\ ClosedThroughLevel) =>
        obs.why = "breakout_failure"

\* "breakout_failure" returned with the stop hit and the holding time over
BreakoutFailureOverStopAndTime ==
    /\ obs.kind = "check_exit"
    /\ obs.why = "breakout_failure"
    /\ StopHit(position, current_price)
    /\ now - position.entry_time > max_hold_seconds(variant)

\* "breakout_failure" returned with the price on the safe side of the stop
BreakoutFailureAboveStop ==
    /\ obs.kind = "check_exit"
    /\ obs.why = "breakout_failure"
    /\ ~StopHit(position, current_price)

\* C29: the client_order_index of every create_limit_order call is greater
\* than every index the client issued before it, however the calls of the
\* tasks interleave
OrderIndicesIncrease ==
    \A i, j \in 1..Len(trading_client.issued) :
        i < j => trading_client.issued[i] < trading_client.issued[j]

\* two tasks await signer.create_order at the same time, each with its
\* index
OrdersInFlightTogether ==
    \E a, b \in Callers :
        /\ a # b
        /\ trading_client.call[a].pc = "submit"
        /\ trading_client.call[b].pc = "submit"

\* the writes to the market of the last get_mid that came before it
WritesBeforeGet ==
    { i \in 1..store.got.at : store.writes[i].market = store.got.market }

\* C30: get_mid returns the price of the latest set_mid or update_mid for
\* that market, None if there was none, whatever was written for other
\* markets
GetMidReturnsLastWritten ==
    store.got.market # "none" =>
        IF WritesBeforeGet = {} THEN ~store.got.result.has
        ELSE LET last == CHOOSE i \in WritesBeforeGet :
                             \A k \in WritesBeforeGet : k <= i
             IN /\ store.got.result.has
                /\ store.got.result.value = store.writes[last].value

\* a price read after it was overwritten for its market and another market
\* was written
ReadAfterOverwrite ==
    /\ store.got.market # "none"
    /\ Cardinality(WritesBeforeGet) >= 2
    /\ \E i \in 1..store.got.at : store.writes[i].market # store.got.market
    /\ \E i, k \in WritesBeforeGet :
         store.writes[i].value # store.writes[k].value

\* None read for a market while another market has a price
ReadOfUnwrittenMarket ==
    /\ store.got.market # "none"
    /\ WritesBeforeGet = {}
    /\ store.got.at >= 1

\* the saves and deletes for the key of the last load_position that came
\* before it
OpsBeforeLoad ==
    { i \in 1..tracker.got.at : tracker.log[i].key = tracker.got.key }

LoadedAfterDelete ==
    /\ tracker.got.key \in TrackerKeys
    /\ Cardinality(OpsBeforeLoad) >= 2
    /\ ~tracker.got.result.has

\* the volatility is below the low threshold of the trader
LowVolatility == indicators.vol < (IF variant = "renko_ao" THEN 2 ELSE 3)

\* high volatility, two recent stop-losses or a losing streak of two
ScaledUp ==
    \/ indicators.vol > (IF variant = "renko_ao" THEN 8 ELSE 10)
    \/ Count(recent_exit_reasons, "stop_loss") >= 2
    \/ losing_streak >= 2

\* C32: after _update_adaptive_cooldown the exit cooldown is between 0.8
\* times the base cooldown and the cap; it is below the base only in low
\* volatility, and above it with high volatility, two recent stop-losses
\* or a losing streak of two outside low volatility
CooldownWithinBounds ==
    obs.kind = "cooldown" =>
        /\ 10 * exit_cooldown >= 8 * base_exit_cooldown(variant)
        /\ exit_cooldown <= cooldown_cap(variant)
        /\ exit_cooldown < base_exit_cooldown(variant) => LowVolatility
        /\ (ScaledUp /\ ~LowVolatility) =>
             exit_cooldown > base_exit_cooldown(variant)

\* the cooldown after high volatility, stop-losses, a losing streak and a
\* failed breakout together
CooldownFullyScaled ==
    /\ obs.kind = "cooldown"
    /\ exit_cooldown > 4 * base_exit_cooldown(variant)

\* the cooldown shortened in low volatility
CooldownShortened ==
    /\ obs.kind = "cooldown"
    /\ 10 * exit_cooldown = 8 * base_exit_cooldown(variant)

----------------------------------------------------------------------------
(* The monitoring of an open position by run() of MeanReversionTrader:     *)
(* a dry-run trader whose window was ready when the position was opened.   *)
(* A cycle refreshes the window when the fetch interval has passed, adds   *)
(* the tick, computes the indicators and, with indicators, checks the      *)
(* exit conditions.  The filters of the entry never pass.                  *)

\* self._candle_fetch_interval
candle_fetch_interval(v) == IF v = "breakout" THEN 300 ELSE 60

MonitorPeriods == Periods(2, 2, 2, 2, 0, 0)

\* the windows a backfill before time t leaves ready for MonitorPeriods
ReadyWindows(v, t) ==
    { w \in { FetchCandles(<< >>, r) : r \in Responses(v) } :
        /\ Len(w) >= ReadyLength(v, MonitorPeriods)
        /\ w[Len(w)].open_time <= t
        /\ \A i \in 1..(Len(w) - 1) : w[i].open_time < w[i + 1].open_time }

InitMonitor ==
    /\ variant = "mean_reversion"
    /\ dry_run = TRUE
    /\ has_client = FALSE
    /\ max_position_size = 2
    /\ max_hold_minutes = 1
    /\ budget = [time |-> LoopStart(variant) + MonitorHorizon,
                 positions |-> 1, idle |-> TRUE, prices |-> CandlePrices,
                 errors |-> 0]
    /\ now = LoopStart(variant)
    /\ stop_set = FALSE
    /\ run_pc = "sleep"
    /\ stop_pc = "idle"
    /\ wake = [t \in Tasks |-> now]
    /\ current_price = 0
    /\ indicators = NoIndicators
    /\ \E side \in {"long", "short"} :
         position = PositionOf(BpsSignal(variant, side, 10000,
                                         max_position_size),
                               now - PollSleep(variant), 0)
    /\ scaled_entries = << >>
    /\ open_orders = {}
    /\ losing_streak = 0
    /\ pause_until = 0
    /\ last_exit_time = 0
    /\ exit_cooldown = base_exit_cooldown(variant)
    /\ recent_exit_reasons = << >>
    /\ trades = 0
    /\ opened = 1
    /\ record_failures = 0
    /\ rejects = 0
    /\ fr = [t \in Tasks |-> IdleFrame]
    /\ obs = NoObs
    /\ hist = NoHist
    /\ candles \in ReadyWindows(variant, now)
    /\ renko = NoRenko
    /\ \E due \in {0, PollSleep(variant)} :
         pipeline = [cfg |-> MonitorPeriods, out |-> NoOutput,
                     last_candle_fetch |->
                         now + due - candle_fetch_interval(variant)]
    /\ trading_client = NoClient
    /\ store = NoStore
    /\ tracker = NoTracker
    /\ app = NoApp

\* one cycle of run() while a position is open, from the `while` test to the
\* sleep that ends it: price 0 is _get_current_price() returning None
MonitorCycle ==
    /\ position.open
    /\ now + PollSleep(variant) <= budget.time
    /\ \E response \in Responses(variant), price \in budget.prices \cup {0} :
         LET due == now - pipeline.last_candle_fetch
                        >= candle_fetch_interval(variant)
             w1 == IF due THEN FetchCandles(candles, response) ELSE candles
             w2 == BuildCandlesFromPrice(variant, w1, price, now)
             out == IF price = 0 THEN NoOutput
                    ELSE ComputeIndicators(variant, pipeline.cfg, w2, "none",
                                           max_position_size)
             ind == [NoIndicators EXCEPT
                       !.rsi = RsiAgainstThresholds(out.rsi_num, out.rsi_den)]
             checked == out.status = "ready"
             why == IF checked
                    THEN CheckExit(variant, position, price, ind, now)
                    ELSE "none"
         IN /\ (~due => response.status = "failed")
            /\ candles' = w2
            /\ current_price' = price
            /\ pipeline' = [pipeline EXCEPT
                              !.out = out,
                              !.last_candle_fetch = IF due THEN now ELSE @]
            /\ indicators' = IF checked THEN ind ELSE indicators
            /\ position' = IF why # "none" THEN NoPosition ELSE position
            /\ obs' = [NoObs EXCEPT !.task = "run", !.kind = "cycle",
                                    !.no_price = (price = 0),
                                    !.gate = out.status,
                                    !.exit_at = IF checked THEN "open"
                                                ELSE "none",
                                    !.why = why,
                                    !.response = IF due THEN response
                                                 ELSE @]
            /\ now' = now + (IF out.status = "raised" THEN ErrorSleep(variant)
                             ELSE PollSleep(variant))
    /\ UNCHANGED << variant, dry_run, has_client, max_position_size,
                    max_hold_minutes, budget, stop_set, run_pc, stop_pc, wake,
                    scaled_entries, open_orders, losing_streak, pause_until,
                    last_exit_time, exit_cooldown, recent_exit_reasons,
                    trades, opened, record_failures, rejects, fr, hist,
                    renko, trading_client, store, tracker, app >>

NextMonitor == MonitorCycle

SpecMonitor == InitMonitor /\ [][NextMonitor]_vars

----------------------------------------------------------------------------
(* main(): the tasks handed to asyncio.gather and the shutdown.  A task is *)
(* at "start", at the test of its loop ("test"), suspended in the body of  *)
(* its loop ("await") or finished ("done").  The event loop runs every     *)
(* task that can run.                                                      *)

\* the traders the configuration enables: at least one, or main() exits
EnabledSets == (SUBSET Variants) \ { {} }

\* whether every coroutine handed to gather has returned
AllDone(a) ==
    /\ a.waiter = "done"
    /\ a.feed = "done"
    /\ a.backup \in {"none", "done"}
    /\ \A t \in a.enabled : a.run[t] = "done"

\* gather returns once every task is done, and main() runs its `finally`
\* block: price_feed.stop(), stop() of every trader, the clients and the
\* trade store closed, "Shutdown complete"
Settle(a) ==
    IF a.phase = "gather" /\ AllDone(a)
    THEN [a EXCEPT !.feed_stop = TRUE, !.stopped = a.enabled,
                   !.phase = "complete"]
    ELSE a

\* one step of a loop `while not <stopped>`: from the test into the body or
\* out of the loop, from the body back to the test
LoopStep(pc, stopped) ==
    CASE pc = "start" -> "test"
      [] pc = "test" -> IF stopped THEN "done" ELSE "await"
      [] OTHER -> "test"

InitApp ==
    /\ variant = "renko_ao"
    /\ dry_run = TRUE
    /\ has_client = FALSE
    /\ max_position_size = 2
    /\ max_hold_minutes = 1
    /\ budget = [time |-> StartTime, positions |-> 0, idle |-> TRUE,
                 prices |-> {}, errors |-> 0]
    /\ now = StartTime
    /\ stop_set = FALSE
    /\ run_pc = "sleep"
    /\ stop_pc = "idle"
    /\ wake = [t \in Tasks |-> StartTime]
    /\ current_price = 0
    /\ indicators = NoIndicators
    /\ position = NoPosition
    /\ scaled_entries = << >>
    /\ open_orders = {}
    /\ losing_streak = 0
    /\ pause_until = 0
    /\ last_exit_time = 0
    /\ exit_cooldown = base_exit_cooldown(variant)
    /\ recent_exit_reasons = << >>
    /\ trades = 0
    /\ opened = 0
    /\ record_failures = 0
    /\ rejects = 0
    /\ fr = [t \in Tasks |-> IdleFrame]
    /\ obs = NoObs
    /\ hist = NoHist
    /\ candles = << >>
    /\ renko = NoRenko
    /\ pipeline = NoPipeline
    /\ trading_client = NoClient
    /\ store = NoStore
    /\ tracker = NoTracker
    /\ \E e \in EnabledSets, ws \in BOOLEAN, b \in BOOLEAN :
         app = [NoApp EXCEPT
                  !.enabled = e, !.websockets = ws, !.pnl_backup = b,
                  !.waiter = "waiting", !.feed = "start",
                  !.run = [t \in Variants |->
                             IF t \in e THEN "start" ELSE "none"],
                  !.backup = "start", !.phase = "gather"]

\* SIGINT or SIGTERM: signal_handler sets the stop event of main()
SignalHandler ==
    /\ app.phase = "gather"
    /\ ~app.signalled
    /\ app' = [app EXCEPT !.signalled = TRUE]
    /\ UNCHANGED << tradervars, trading_client, store, tracker >>

\* stop_event.wait() returns
StopEventWait ==
    /\ app.waiter = "waiting"
    /\ app.signalled
    /\ app' = Settle([app EXCEPT !.waiter = "done"])
    /\ UNCHANGED << tradervars, trading_client, store, tracker >>

\* WebSocketPriceFeed.run: returns at once without the websockets library,
\* loops while its own stop event is not set otherwise
PriceFeedRun ==
    /\ app.feed \in {"start", "test", "await"}
    /\ app' = Settle([app EXCEPT !.feed =
                        IF app.feed = "start" /\ ~app.websockets THEN "done"
                        ELSE LoopStep(app.feed, app.feed_stop)])
    /\ UNCHANGED << tradervars, trading_client, store, tracker >>

\* run() of the trader t: loops while its own stop event is not set
TraderRun(t) ==
    /\ t \in app.enabled
    /\ app.run[t] \in {"start", "test", "await"}
    /\ app' = Settle([app EXCEPT !.run[t] =
                        LoopStep(app.run[t], t \in app.stopped)])
    /\ UNCHANGED << tradervars, trading_client, store, tracker >>

\* backup_loop: returns at once without pnl_backup, loops while the stop
\* event of main() is not set otherwise
BackupLoop ==
    /\ app.backup \in {"start", "test", "await"}
    /\ app' = Settle([app EXCEPT !.backup =
                        IF app.backup = "start" /\ ~app.pnl_backup THEN "done"
                        ELSE LoopStep(app.backup, app.signalled)])
    /\ UNCHANGED << tradervars, trading_client, store, tracker >>

NextApp ==
    \/ SignalHandler
    \/ StopEventWait
    \/ PriceFeedRun
    \/ BackupLoop
    \/ \E t \in Variants : TraderRun(t)

\* every task that can run is run
SpecApp ==
    /\ InitApp
    /\ [][NextApp]_vars
    /\ WF_vars(StopEventWait)
    /\ WF_vars(PriceFeedRun)
    /\ WF_vars(BackupLoop)
    /\ \A t \in Variants : WF_vars(TraderRun(t))

----------------------------------------------------------------------------
(* The signals of the three entry policies: _check_entry called once with  *)
(* any price and indicator snapshot of the sets below.                     *)

\* prices of the calls, 99.00 to 101.00
SignalPrices == {9900, 9994, 10000, 10006, 10100}

\* breakout levels of the snapshots: below, at and above the prices
SignalLevels == {9800, 9994, 10000, 10006, 10200}

\* indicators.atr of the snapshots, in price units of 0.01: none, 0.01,
\* 0.80 and 4.00
SignalATRs == {0, 1, 80, 400}

\* the snapshots _check_entry is called with
SignalSnapshots(v) ==
    IF v = "breakout"
    THEN { [NoIndicators EXCEPT !.recent_high = hi, !.recent_low = lo,
                                !.filters = f, !.atr = a] :
             hi \in SignalLevels, lo \in SignalLevels,
             f \in {"long", "short"}, a \in SignalATRs }
    ELSE Snapshots(v, FALSE)

InitSignals ==
    /\ variant \in Variants
    /\ dry_run = TRUE
    /\ has_client = FALSE
    /\ max_position_size \in {1, 2}
    /\ max_hold_minutes = 1
    /\ budget = [time |-> StartTime, positions |-> 0, idle |-> TRUE,
                 prices |-> {}, errors |-> 0]
    /\ now = StartTime
    /\ stop_set = FALSE
    /\ run_pc = "sleep"
    /\ stop_pc = "idle"
    /\ wake = [t \in Tasks |-> StartTime]
    /\ current_price \in SignalPrices
    /\ indicators \in SignalSnapshots(variant)
    /\ position = NoPosition
    /\ scaled_entries = << >>
    /\ open_orders = {}
    /\ losing_streak = 0
    /\ pause_until = 0
    /\ last_exit_time = 0
    /\ exit_cooldown = base_exit_cooldown(variant)
    /\ recent_exit_reasons = << >>
    /\ trades = 0
    /\ opened = 0
    /\ record_failures = 0
    /\ rejects = 0
    /\ fr = [t \in Tasks |-> IdleFrame]
    /\ obs = NoObs
    /\ hist = NoHist
    /\ candles = << >>
    /\ renko = NoRenko
    /\ pipeline = NoPipeline
    /\ trading_client = NoClient
    /\ store = NoStore
    /\ tracker = NoTracker
    /\ app = NoApp

\* _check_entry(price, indicators), and with it _create_signal
CheckEntryCall ==
    /\ obs.kind # "signal"
    /\ pipeline' = [pipeline EXCEPT !.out.signal =
                      CheckEntry(variant, current_price, indicators,
                                 max_position_size)]
    /\ obs' = [NoObs EXCEPT !.task = "run", !.kind = "signal"]
    /\ UNCHANGED << lifecyclevars, now, current_price, candles, renko,
                    trading_client, store, tracker, app >>

NextSignals == CheckEntryCall

SpecSignals == InitSignals /\ [][NextSignals]_vars

----------------------------------------------------------------------------
(* Exit orders per position                                                *)

\* C33: while stop() has not been called, the cycles of run() have had at
\* most one exit order accepted per position opened, also when record_trade
\* raised after an order was accepted
OneExitOrderPerPosition ==
    stop_pc = "idle" => hist.exit_orders <= opened

\* C34: with stop() called while a cycle of run() is suspended inside
\* _exit_position, and record_trade never raising, at most one exit order is
\* accepted and at most one TradeRecord written per position opened
ExitsNeverBothAct ==
    record_failures = 0 => hist.exit_orders <= opened /\ trades <= opened

----------------------------------------------------------------------------
(* After the stop signal                                                   *)

\* C35: once the stop event is set, a cycle that has not yet submitted an
\* entry order submits none and opens no position, and run() starts no
\* further cycle
NoNewPositionAfterStop ==
    [][(stop_set /\ fr["run"].op # "enter") =>
         /\ fr'["run"].op # "enter"
         /\ opened' = opened
         /\ (~position.open => ~position'.open)
         /\ obs'.kind # "cycle"]_vars

----------------------------------------------------------------------------
(* Monitoring of the open position                                         *)

\* C36: every cycle of run() that has a position open and reads a price
\* evaluates the exit conditions, whatever the length of the window
ExitCheckedEveryCycle ==
    [][(position.open /\ obs'.kind = "cycle" /\ ~obs'.no_price) =>
         obs'.exit_at = "open"]_vars

----------------------------------------------------------------------------
(* Dry-run mode and the execution collaborator                             *)

\* C37: in dry-run mode no step leaves a task awaiting create_limit_order,
\* and no step cancels or adds a tracked order, with or without a trading
\* client
NoOrdersInDryRun ==
    [][dry_run => /\ \A tk \in Tasks : fr'[tk].pc # "submit"
                  /\ open_orders' = open_orders]_vars

----------------------------------------------------------------------------
(* A scale-in that fails                                                   *)

\* C38: a scale-in whose submission raises, or that finds no trading
\* client, leaves the position, the scaled entries and the tracked orders
\* as they were
FailedScaleChangesNothing ==
    [][(\/ obs'.kind = "scale" /\ obs'.outcome # "ok"
        \/ obs'.scale_at = "open" /\ ~has_client) =>
         /\ position' = position
         /\ scaled_entries' = scaled_entries
         /\ open_orders' = open_orders]_vars

\* the scale order of an open position was refused
ScaleOrderRefused ==
    /\ obs.kind = "scale"
    /\ obs.outcome # "ok"
    /\ position.open

\* the scale conditions were evaluated without a trading client
ScaleWithoutClient ==
    /\ obs.scale_at = "open"
    /\ ~has_client
    /\ position.open

----------------------------------------------------------------------------
(* Shutdown                                                                *)

\* C39: once a signal has set the stop event of main(), the gathered tasks
\* finish, stop() is called on the feed and on every trader, and main()
\* reaches the end of its shutdown
ShutdownCompletes ==
    app.signalled ~> (/\ app.phase = "complete"
                      /\ app.feed_stop
                      /\ app.stopped = app.enabled)

----------------------------------------------------------------------------
(* Ordering of stop, entry and target                                      *)

\* C40: every Signal _check_entry returns has stop_loss < entry_price <
\* take_profit when long and take_profit < entry_price < stop_loss when
\* short
SignalLevelsOrdered ==
    LET sig == pipeline.out.signal IN
    (obs.kind = "signal" /\ sig.side # "none") =>
        IF sig.side = "long"
        THEN /\ sig.stop_num < sig.entry_price * sig.stop_den
             /\ sig.entry_price * sig.tp_den < sig.tp_num
        ELSE /\ sig.tp_num < sig.entry_price * sig.tp_den
             /\ sig.entry_price * sig.stop_den < sig.stop_num

\* a breakout signal whose snapshot has ATR = 0
BreakoutSignalWithoutATR ==
    /\ obs.kind = "signal"
    /\ variant = "breakout"
    /\ pipeline.out.signal.side # "none"
    /\ indicators.atr = 0

\* a short signal of one of the bps-based policies
ShortBpsSignal ==
    /\ obs.kind = "signal"
    /\ variant # "breakout"
    /\ pipeline.out.signal.side = "short"

====
